---- MODULE Spec2Model ----
(***************************************************************************)
(* The 4-player UNO engine of src/unnamed/part_001 (first variant, lines   *)
(* 1-790): one human (player 0) and three computer players (1, 2, 3).      *)
(*                                                                         *)
(* The state is the global gameState object plus the part of the DOM the   *)
(* engine reads back (the display style of the color picker and the wild   *)
(* value captured by its buttons).  Every handler the browser can invoke   *)
(* (startGame, handlePlayerAction, setWildColor through a picker button,   *)
(* declareUno, and the setTimeout callback handleComputerTurn) is one      *)
(* action; the functions they call are operators over a record `s` that    *)
(* holds all the fields.                                                   *)
(*                                                                         *)
(* Conventions: sequences are 1-based, so a hand index i here is the       *)
(* JavaScript index i-1; cardIndex 0 stands for `null` (the draw button)   *)
(* and findBestPlayableCard returns 0 where the code returns -1.  A card   *)
(* is a record [color, value, nextColor]; value is the string form of the  *)
(* JavaScript value, nextColor = "none" stands for an absent property.     *)
(***************************************************************************)
EXTENDS Integers, Sequences, FiniteSets, TLC

\* ------------------------------------------------------------------------
\* Bounds of the exploration
\* ------------------------------------------------------------------------

\* number of handler executions explored after page load
MaxSteps == 11

\* reshuffleDeck's Fisher-Yates outcome is one of the rotations 0..MaxRot
MaxRot == 1

\* ------------------------------------------------------------------------
\* Program constants
\* ------------------------------------------------------------------------

NUM_PLAYERS == 4

\* cards dealt to each player by dealInitialCards
HandSize == 7

Players == 0 .. (NUM_PLAYERS - 1)

colors == <<"R", "G", "B", "Y">>

actions == <<"S", "R", "D2">>

Digits == <<"0", "1", "2", "3", "4", "5", "6", "7", "8", "9">>

\* typeof value === 'number'
IsNumber(v) == \E i \in 1 .. Len(Digits) : Digits[i] = v

\* the number a numeral value stands for
NumericValue(v) == (CHOOSE i \in 1 .. Len(Digits) : Digits[i] = v) - 1

Card(c, v) == [color |-> c, value |-> v, nextColor |-> "none"]

\* gameState.topCard = null
NoCard == [color |-> "null", value |-> "null", nextColor |-> "none"]

\* ------------------------------------------------------------------------
\* Sequence helpers
\* ------------------------------------------------------------------------

Last(seq) == seq[Len(seq)]

\* Array.prototype.pop: the array without its last element
Front(seq) == SubSeq(seq, 1, Len(seq) - 1)

\* Array.prototype.splice(i, 1)
RemoveAt(seq, i) == SubSeq(seq, 1, i - 1) \o SubSeq(seq, i + 1, Len(seq))

Reverse(seq) == [i \in 1 .. Len(seq) |-> seq[Len(seq) + 1 - i]]

RECURSIVE Flatten(_)
Flatten(seqs) == IF seqs = << >> THEN << >> ELSE Head(seqs) \o Flatten(Tail(seqs))

\* how many elements of seq equal x
Occurrences(seq, x) == Cardinality({i \in 1 .. Len(seq) : seq[i] = x})

\* seq without the elements of xs, each taken away once, earliest first
RemoveEach(seq, xs) ==
    LET kept == {i \in 1 .. Len(seq) :
                    Cardinality({j \in 1 .. i : seq[j] = seq[i]}) > Occurrences(xs, seq[i])}
        Nth(n) == CHOOSE i \in kept : Cardinality({j \in kept : j <= i}) = n
    IN  [n \in 1 .. Cardinality(kept) |-> seq[Nth(n)]]

\* ------------------------------------------------------------------------
\* createDeck
\* ------------------------------------------------------------------------

\* step 1 of createDeck for one color: one 0, two of each 1..9
NumberCards(c) ==
    <<Card(c, Digits[1])>> \o [i \in 1 .. 18 |-> Card(c, Digits[((i + 1) \div 2) + 1])]

\* step 2 of createDeck for one color: two of each of S, R, D2
ActionCards(c) == [i \in 1 .. 6 |-> Card(c, actions[(i + 1) \div 2])]

\* step 3 of createDeck: four times a W followed by a W4
WildCards == [i \in 1 .. 8 |-> Card("BL", IF i % 2 = 1 THEN "W" ELSE "W4")]

\* the deck of createDeck before the Fisher-Yates pass
UnshuffledDeck ==
    Flatten([k \in 1 .. Len(colors) |-> NumberCards(colors[k])])
      \o Flatten([k \in 1 .. Len(colors) |-> ActionCards(colors[k])])
      \o WildCards

DeckSize == Len(UnshuffledDeck)

\* ------------------------------------------------------------------------
\* Game logic: pure helpers
\* ------------------------------------------------------------------------

canPlay(cardToPlay, topCard) ==
    IF cardToPlay.color = "BL" THEN TRUE
    ELSE IF cardToPlay.value = topCard.value THEN TRUE
    ELSE LET activeColor == IF topCard.nextColor # "none" THEN topCard.nextColor
                            ELSE topCard.color
         IN  cardToPlay.color = activeColor

isExactMatch(card1, card2) ==
    card1.color = card2.color /\ card1.value = card2.value

\* JavaScript's %: the result takes the sign of the dividend
JSRem(a, n) == IF a >= 0 THEN a % n ELSE 0 - ((0 - a) % n)

\* the for loop of calculateNextPlayer, `steps` iterations left
RECURSIVE StepPlayer(_, _, _)
StepPlayer(nextPlayer, direction, steps) ==
    IF steps <= 0 THEN nextPlayer
    ELSE LET n == JSRem(nextPlayer + direction, NUM_PLAYERS)
         IN  StepPlayer(IF n < 0 THEN n + NUM_PLAYERS ELSE n, direction, steps - 1)

\* calculateNextPlayer that steps by +1 whatever the direction
calculateNextPlayer_Clockwise(playerIndex, direction, skips) ==
    StepPlayer(playerIndex, 1, skips + 1)

\* calculateNextPlayer that makes one step whatever skips is
calculateNextPlayer_IgnoresSkips(playerIndex, direction, skips) ==
    StepPlayer(playerIndex, direction, 1)

calculateNextPlayer(playerIndex, direction, skips) ==
    StepPlayer(playerIndex, direction, skips + 1)

\* applyCardEffect with `skips = 1` (line 170) left out: a Skip passes the
\* turn like a numeral
applyCardEffect_SkipSkipsNobody(s, card, playerIndex) ==
    LET s1 == IF card.color # "BL" /\ s.topCard.nextColor # "none"
              THEN [s EXCEPT !.topCard.nextColor = "none"]
              ELSE s
        s2 == CASE card.value = "R"  -> [s1 EXCEPT !.direction = s1.direction * (0 - 1)]
                [] card.value = "D2" -> [s1 EXCEPT !.pendingDraw = s1.pendingDraw + 2]
                [] card.value = "W4" -> [s1 EXCEPT !.pendingDraw = s1.pendingDraw + 4]
                [] OTHER             -> s1
    IN  [s |-> s2, nextPlayer |-> calculateNextPlayer(playerIndex, s2.direction, 0)]

\* applyCardEffect computing the next player before the direction is flipped
\* (line 193 moved above the switch)
applyCardEffect_ReverseTooLate(s, card, playerIndex) ==
    LET s1 == IF card.color # "BL" /\ s.topCard.nextColor # "none"
              THEN [s EXCEPT !.topCard.nextColor = "none"]
              ELSE s
        skips == IF card.value = "S" THEN 1 ELSE 0
        s2 == CASE card.value = "R"  -> [s1 EXCEPT !.direction = s1.direction * (0 - 1)]
                [] card.value = "D2" -> [s1 EXCEPT !.pendingDraw = s1.pendingDraw + 2]
                [] card.value = "W4" -> [s1 EXCEPT !.pendingDraw = s1.pendingDraw + 4]
                [] OTHER             -> s1
    IN  [s |-> s2, nextPlayer |-> calculateNextPlayer(playerIndex, s1.direction, skips)]

\* applyCardEffect: the state after the effect and the next player
applyCardEffect(s, card, playerIndex) ==
    LET s1 == IF card.color # "BL" /\ s.topCard.nextColor # "none"
              THEN [s EXCEPT !.topCard.nextColor = "none"]
              ELSE s
        skips == IF card.value = "S" THEN 1 ELSE 0
        s2 == CASE card.value = "R"  -> [s1 EXCEPT !.direction = s1.direction * (0 - 1)]
                [] card.value = "D2" -> [s1 EXCEPT !.pendingDraw = s1.pendingDraw + 2]
                [] card.value = "W4" -> [s1 EXCEPT !.pendingDraw = s1.pendingDraw + 4]
                [] OTHER             -> s1
    IN  [s |-> s2, nextPlayer |-> calculateNextPlayer(playerIndex, s2.direction, skips)]

\* one outcome of the Fisher-Yates pass of reshuffleDeck: the rotation by k
Shuffle(seq, k) ==
    IF seq = << >> THEN << >>
    ELSE [i \in 1 .. Len(seq) |-> seq[((i - 1 + k) % Len(seq)) + 1]]

\* reshuffleDeck without the pop of line 204: the top card goes into the new
\* deck as well
reshuffleDeck_TopCardShuffledIn(s, k) ==
    IF Len(s.discardPile) <= 1 THEN [s |-> s, ok |-> FALSE]
    ELSE [s  |-> [s EXCEPT !.deck = Shuffle(s.discardPile, k),
                           !.discardPile = <<Last(s.discardPile)>>],
          ok |-> TRUE]

\* reshuffleDeck; k selects the outcome of the shuffle
reshuffleDeck(s, k) ==
    IF Len(s.discardPile) <= 1 THEN [s |-> s, ok |-> FALSE]
    ELSE [s  |-> [s EXCEPT !.deck = Shuffle(Front(s.discardPile), k),
                           !.discardPile = <<Last(s.discardPile)>>],
          ok |-> TRUE]

\* checkWin without line 743: the winner is not recorded
checkWin_ForgetsWinner(s, playerIndex) ==
    IF Len(s.hands[playerIndex]) = 0
    THEN [s EXCEPT !.gameOver = TRUE]
    ELSE s

checkWin(s, playerIndex) ==
    IF Len(s.hands[playerIndex]) = 0
    THEN [s EXCEPT !.gameOver = TRUE, !.winner = playerIndex]
    ELSE s

handleUnoCheck(s, playerIndex) ==
    IF playerIndex = 0
    THEN [s EXCEPT !.unoAwaitingCall = (Len(s.hands[0]) = 1)]
    ELSE s

\* the handle is set to null without clearTimeout: its timer stays outstanding
ClearAiTimeout_HandleOnly(s) == [s EXCEPT !.aiActionTimeout = "null"]

\* if (gameState.aiActionTimeout) { clearTimeout(...); ... = null; }
\* clearTimeout cancels the timer of the handle unless it has fired already
ClearAiTimeout(s) ==
    [s EXCEPT !.aiActionTimeout = "null",
              !.outstandingTimers = IF s.aiActionTimeout = "pending" THEN @ - 1 ELSE @]

\* a timer runs out: timers of one delay fire in the order in which they were
\* started, so the timer of the handle is the last to fire
TimerFires(s) ==
    [s EXCEPT !.outstandingTimers = @ - 1,
              !.aiActionTimeout = IF s.outstandingTimers = 1 /\ @ = "pending"
                                  THEN "fired" ELSE @]

\* renderGame: of its effects only the AI trigger (step 6) is state the engine
\* reads back; a game that is over returns before reaching it
renderGame(s) ==
    IF s.gameOver THEN s
    ELSE IF s.currentPlayer # 0 /\ s.pickerDisplay = "none" /\ s.aiActionTimeout = "null"
         THEN [s EXCEPT !.aiActionTimeout = "pending", !.outstandingTimers = @ + 1]
         ELSE s

\* ------------------------------------------------------------------------
\* Computer strategy
\* ------------------------------------------------------------------------

\* candidates.find(c => ...).index, given the set `hits` of hand indices of the
\* candidates that satisfy the test: the lowest one, 0 when there is none
FirstIndex(hits) ==
    IF hits = {} THEN 0 ELSE CHOOSE i \in hits : \A j \in hits : i <= j

\* findBestPlayableCard without PRIORITY 1 (lines 240-251): a short hand of the
\* next player changes nothing
findBestPlayableCard_NeverBlocks(s, hand, topCard, playerIndex) ==
    LET candidates == {i \in 1 .. Len(hand) : canPlay(hand[i], topCard)}
        reverse == FirstIndex({i \in candidates : hand[i].value = "R"})
        actionCard == FirstIndex({i \in candidates : hand[i].value \in {"S", "D2"}})
        numbers == {i \in candidates : IsNumber(hand[i].value)}
        bestNumber ==
            CHOOSE i \in numbers :
                \A j \in numbers :
                    \/ NumericValue(hand[i].value) > NumericValue(hand[j].value)
                    \/ /\ NumericValue(hand[i].value) = NumericValue(hand[j].value)
                       /\ i <= j
        nonDrawWild == FirstIndex({i \in candidates : hand[i].value = "W"})
        lastResortWild == FirstIndex({i \in candidates : hand[i].color = "BL"})
    IN  IF candidates = {} THEN 0
        ELSE IF reverse # 0 THEN reverse
        ELSE IF actionCard # 0 THEN actionCard
        ELSE IF numbers # {} THEN bestNumber
        ELSE IF nonDrawWild # 0 THEN nonDrawWild
        ELSE IF lastResortWild # 0 THEN lastResortWild
        ELSE FirstIndex(candidates)

\* findBestPlayableCard with the numerals sorted in ascending order
\* (a.card.value - b.card.value at line 265)
findBestPlayableCard_LowestNumber(s, hand, topCard, playerIndex) ==
    LET nextPlayerIndex == calculateNextPlayer(playerIndex, s.direction, 0)
        nextPlayerHandSize == Len(s.hands[nextPlayerIndex])
        candidates == {i \in 1 .. Len(hand) : canPlay(hand[i], topCard)}
        drawFour == FirstIndex({i \in candidates : hand[i].value = "W4"})
        drawTwo == FirstIndex({i \in candidates : hand[i].value = "D2"})
        skip == FirstIndex({i \in candidates : hand[i].value = "S"})
        reverse == FirstIndex({i \in candidates : hand[i].value = "R"})
        actionCard == FirstIndex({i \in candidates : hand[i].value \in {"S", "D2"}})
        numbers == {i \in candidates : IsNumber(hand[i].value)}
        bestNumber ==
            CHOOSE i \in numbers :
                \A j \in numbers :
                    \/ NumericValue(hand[i].value) < NumericValue(hand[j].value)
                    \/ /\ NumericValue(hand[i].value) = NumericValue(hand[j].value)
                       /\ i <= j
        nonDrawWild == FirstIndex({i \in candidates : hand[i].value = "W"})
        lastResortWild == FirstIndex({i \in candidates : hand[i].color = "BL"})
    IN  IF candidates = {} THEN 0
        ELSE IF nextPlayerHandSize <= 2 /\ drawFour # 0 THEN drawFour
        ELSE IF nextPlayerHandSize <= 2 /\ drawTwo # 0 THEN drawTwo
        ELSE IF nextPlayerHandSize <= 2 /\ skip # 0 THEN skip
        ELSE IF reverse # 0 THEN reverse
        ELSE IF actionCard # 0 THEN actionCard
        ELSE IF numbers # {} THEN bestNumber
        ELSE IF nonDrawWild # 0 THEN nonDrawWild
        ELSE IF lastResortWild # 0 THEN lastResortWild
        ELSE FirstIndex(candidates)

\* findBestPlayableCard whose candidates are all the cards of the hand: the
\* canPlay test of lines 230-234 is left out
findBestPlayableCard_NoFilter(s, hand, topCard, playerIndex) ==
    LET nextPlayerIndex == calculateNextPlayer(playerIndex, s.direction, 0)
        nextPlayerHandSize == Len(s.hands[nextPlayerIndex])
        candidates == 1 .. Len(hand)
        drawFour == FirstIndex({i \in candidates : hand[i].value = "W4"})
        drawTwo == FirstIndex({i \in candidates : hand[i].value = "D2"})
        skip == FirstIndex({i \in candidates : hand[i].value = "S"})
        reverse == FirstIndex({i \in candidates : hand[i].value = "R"})
        actionCard == FirstIndex({i \in candidates : hand[i].value \in {"S", "D2"}})
        numbers == {i \in candidates : IsNumber(hand[i].value)}
        \* first element of the stable descending sort: the earliest index
        \* among those of the highest value
        bestNumber ==
            CHOOSE i \in numbers :
                \A j \in numbers :
                    \/ NumericValue(hand[i].value) > NumericValue(hand[j].value)
                    \/ /\ NumericValue(hand[i].value) = NumericValue(hand[j].value)
                       /\ i <= j
        nonDrawWild == FirstIndex({i \in candidates : hand[i].value = "W"})
        lastResortWild == FirstIndex({i \in candidates : hand[i].color = "BL"})
    IN  IF candidates = {} THEN 0
        ELSE IF nextPlayerHandSize <= 2 /\ drawFour # 0 THEN drawFour
        ELSE IF nextPlayerHandSize <= 2 /\ drawTwo # 0 THEN drawTwo
        ELSE IF nextPlayerHandSize <= 2 /\ skip # 0 THEN skip
        ELSE IF reverse # 0 THEN reverse
        ELSE IF actionCard # 0 THEN actionCard
        ELSE IF numbers # {} THEN bestNumber
        ELSE IF nonDrawWild # 0 THEN nonDrawWild
        ELSE IF lastResortWild # 0 THEN lastResortWild
        ELSE FirstIndex(candidates)

findBestPlayableCard(s, hand, topCard, playerIndex) ==
    LET nextPlayerIndex == calculateNextPlayer(playerIndex, s.direction, 0)
        nextPlayerHandSize == Len(s.hands[nextPlayerIndex])
        candidates == {i \in 1 .. Len(hand) : canPlay(hand[i], topCard)}
        drawFour == FirstIndex({i \in candidates : hand[i].value = "W4"})
        drawTwo == FirstIndex({i \in candidates : hand[i].value = "D2"})
        skip == FirstIndex({i \in candidates : hand[i].value = "S"})
        reverse == FirstIndex({i \in candidates : hand[i].value = "R"})
        actionCard == FirstIndex({i \in candidates : hand[i].value \in {"S", "D2"}})
        numbers == {i \in candidates : IsNumber(hand[i].value)}
        \* first element of the stable descending sort: the earliest index
        \* among those of the highest value
        bestNumber ==
            CHOOSE i \in numbers :
                \A j \in numbers :
                    \/ NumericValue(hand[i].value) > NumericValue(hand[j].value)
                    \/ /\ NumericValue(hand[i].value) = NumericValue(hand[j].value)
                       /\ i <= j
        nonDrawWild == FirstIndex({i \in candidates : hand[i].value = "W"})
        lastResortWild == FirstIndex({i \in candidates : hand[i].color = "BL"})
    IN  IF candidates = {} THEN 0
        ELSE IF nextPlayerHandSize <= 2 /\ drawFour # 0 THEN drawFour
        ELSE IF nextPlayerHandSize <= 2 /\ drawTwo # 0 THEN drawTwo
        ELSE IF nextPlayerHandSize <= 2 /\ skip # 0 THEN skip
        ELSE IF reverse # 0 THEN reverse
        ELSE IF actionCard # 0 THEN actionCard
        ELSE IF numbers # {} THEN bestNumber
        ELSE IF nonDrawWild # 0 THEN nonDrawWild
        ELSE IF lastResortWild # 0 THEN lastResortWild
        ELSE FirstIndex(candidates)

\* ------------------------------------------------------------------------
\* Wild color
\* ------------------------------------------------------------------------

\* colorCounts[color] of showColorPicker (0 where the property is absent)
ColorCount(hand, c) == Cardinality({i \in 1 .. Len(hand) : hand[i].color = c})

\* the for loop over colors of showColorPicker, from position k on
RECURSIVE BestColorFrom(_, _, _, _)
BestColorFrom(hand, k, bestColor, maxCount) ==
    IF k > Len(colors) THEN bestColor
    ELSE LET n == ColorCount(hand, colors[k])
         IN  IF n # 0 /\ n > maxCount
             THEN BestColorFrom(hand, k + 1, colors[k], n)
             ELSE BestColorFrom(hand, k + 1, bestColor, maxCount)

BestColor(hand) == BestColorFrom(hand, 1, "R", 0 - 1)

setWildColor(s, chosenColor, wildValue) ==
    LET playerIndex == s.currentPlayer
        s1 == IF playerIndex = 0 THEN [s EXCEPT !.pickerDisplay = "none"] ELSE s
        s2 == [s1 EXCEPT !.topCard = [color |-> s1.topCard.color, value |-> wildValue,
                                      nextColor |-> chosenColor]]
        result == applyCardEffect(s2, s2.topCard, playerIndex)
        s3 == [result.s EXCEPT !.currentPlayer = result.nextPlayer]
        s4 == handleUnoCheck(checkWin(s3, playerIndex), playerIndex)
    IN  renderGame(ClearAiTimeout(s4))

showColorPicker(s, playerIndex, wildValue) ==
    IF playerIndex = 0
    THEN [s EXCEPT !.pickerDisplay = "flex", !.pickerWildValue = wildValue]
    ELSE setWildColor(s, BestColor(s.hands[playerIndex]), wildValue)

\* ------------------------------------------------------------------------
\* Drawing
\* ------------------------------------------------------------------------

\* if (deck.length === 0) reshuffleDeck(); if (deck.length > 0) hand.push(deck.pop());
DrawOneIfAny(s, playerIndex, k) ==
    LET s1 == IF Len(s.deck) = 0 THEN reshuffleDeck(s, k).s ELSE s
    IN  IF Len(s1.deck) > 0
        THEN [s1 EXCEPT !.hands[playerIndex] = Append(@, Last(s1.deck)),
                        !.deck = Front(s1.deck)]
        ELSE s1

\* a for loop of n iterations of DrawOneIfAny
RECURSIVE DrawLoop(_, _, _, _)
DrawLoop(s, playerIndex, n, k) ==
    IF n <= 0 THEN s ELSE DrawLoop(DrawOneIfAny(s, playerIndex, k), playerIndex, n - 1, k)

\* the do-while loop of the regular draw of handleDrawAction
RECURSIVE RegularDrawLoop(_, _, _, _)
RegularDrawLoop(s, drawnCards, isHuman, k) ==
    LET r == IF Len(s.deck) = 0 THEN reshuffleDeck(s, k) ELSE [s |-> s, ok |-> TRUE]
    IN  IF ~r.ok
        THEN [s |-> s, drawnCards |-> drawnCards, playableFound |-> FALSE]
        ELSE LET newCard == Last(r.s.deck)
                 s1 == [r.s EXCEPT !.deck = Front(r.s.deck)]
                 drawn == Append(drawnCards, newCard)
                 playableFound == canPlay(newCard, s1.topCard)
             IN  IF ~isHuman /\ ~playableFound
                 THEN RegularDrawLoop(s1, drawn, isHuman, k)
                 ELSE [s |-> s1, drawnCards |-> drawn, playableFound |-> playableFound]

\* handleDrawAction without lines 546-550: player 0 keeps the turn after
\* drawing a card that cannot be played
handleDrawAction_HumanKeepsTurn(s, playerIndex, k) ==
    LET isHuman == playerIndex = 0
    IN  IF s.pendingDraw > 0
        THEN LET s1 == DrawLoop(s, playerIndex, s.pendingDraw, k)
                 nextPlayer == calculateNextPlayer(playerIndex, s1.direction, 0)
             IN  [s |-> [s1 EXCEPT !.pendingDraw = 0, !.currentPlayer = nextPlayer],
                  playableFound |-> FALSE, statusTurnPassed |-> TRUE]
        ELSE LET d == RegularDrawLoop(s, << >>, isHuman, k)
                 s1 == [d.s EXCEPT !.hands[playerIndex] = @ \o d.drawnCards]
             IN  [s |-> s1,
                  playableFound |-> d.playableFound, statusTurnPassed |-> FALSE]

\* handleDrawAction whose regular draw stops after one card for a computer
\* too (the loop condition of line 541 without !isHuman)
handleDrawAction_ComputerDrawsOnce(s, playerIndex, k) ==
    LET isHuman == playerIndex = 0
    IN  IF s.pendingDraw > 0
        THEN LET s1 == DrawLoop(s, playerIndex, s.pendingDraw, k)
                 nextPlayer == calculateNextPlayer(playerIndex, s1.direction, 0)
             IN  [s |-> [s1 EXCEPT !.pendingDraw = 0, !.currentPlayer = nextPlayer],
                  playableFound |-> FALSE, statusTurnPassed |-> TRUE]
        ELSE LET d == RegularDrawLoop(s, << >>, TRUE, k)
                 s1 == [d.s EXCEPT !.hands[playerIndex] = @ \o d.drawnCards]
                 nextPlayer == calculateNextPlayer(playerIndex, s1.direction, 0)
             IN  [s |-> IF isHuman /\ ~d.playableFound
                        THEN [s1 EXCEPT !.currentPlayer = nextPlayer]
                        ELSE s1,
                  playableFound |-> d.playableFound, statusTurnPassed |-> FALSE]

\* handleDrawAction: the state after it, its return value, and whether the
\* status message it leaves contains "Turn passed"
handleDrawAction(s, playerIndex, k) ==
    LET isHuman == playerIndex = 0
    IN  IF s.pendingDraw > 0
        THEN LET s1 == DrawLoop(s, playerIndex, s.pendingDraw, k)
                 nextPlayer == calculateNextPlayer(playerIndex, s1.direction, 0)
             IN  [s |-> [s1 EXCEPT !.pendingDraw = 0, !.currentPlayer = nextPlayer],
                  playableFound |-> FALSE, statusTurnPassed |-> TRUE]
        ELSE LET d == RegularDrawLoop(s, << >>, isHuman, k)
                 s1 == [d.s EXCEPT !.hands[playerIndex] = @ \o d.drawnCards]
                 nextPlayer == calculateNextPlayer(playerIndex, s1.direction, 0)
             IN  [s |-> IF isHuman /\ ~d.playableFound
                        THEN [s1 EXCEPT !.currentPlayer = nextPlayer]
                        ELSE s1,
                  playableFound |-> d.playableFound, statusTurnPassed |-> FALSE]

\* ------------------------------------------------------------------------
\* Handlers
\* ------------------------------------------------------------------------

\* handlePlayerAction without the test of lines 580-583: on player 0's turn
\* every card of the hand is accepted
handlePlayerAction_AcceptsAnyCard(s, cardIndex, k) ==
    IF s.gameOver \/ (s.currentPlayer # 0 /\ cardIndex = 0) THEN s
    ELSE IF cardIndex = 0
    THEN renderGame(IF s.currentPlayer = 0 THEN handleDrawAction(s, 0, k).s ELSE s)
    ELSE
    LET cardPlayed == s.hands[0][cardIndex]
        isPlayerTurn == s.currentPlayer = 0
        isJumpIn == ~isPlayerTurn /\ isExactMatch(cardPlayed, s.topCard)
    IN  IF ~isPlayerTurn /\ ~isJumpIn THEN s
        ELSE
        LET s1 == [s EXCEPT !.hands[0] = RemoveAt(@, cardIndex),
                            !.discardPile = Append(@, cardPlayed),
                            !.topCard = cardPlayed]
            s2 == checkWin(s1, 0)
        IN  IF s2.gameOver THEN renderGame(s2)
            ELSE
            LET s3 == [s2 EXCEPT !.unoAwaitingCall = (Len(s2.hands[0]) = 1)]
                result == applyCardEffect(s3, cardPlayed, 0)
                s4 == IF cardPlayed.color = "BL"
                      THEN showColorPicker(s3, 0, cardPlayed.value)
                      ELSE [result.s EXCEPT !.currentPlayer =
                                IF isJumpIn THEN 0 ELSE result.nextPlayer]
            IN  renderGame(ClearAiTimeout(s4))

\* handlePlayerAction; cardIndex 0 is the draw request (null)
handlePlayerAction(s, cardIndex, k) ==
    IF s.gameOver \/ (s.currentPlayer # 0 /\ cardIndex = 0) THEN s
    ELSE IF cardIndex = 0
    THEN renderGame(IF s.currentPlayer = 0 THEN handleDrawAction(s, 0, k).s ELSE s)
    ELSE
    LET cardPlayed == s.hands[0][cardIndex]
        isPlayerTurn == s.currentPlayer = 0
        isJumpIn == ~isPlayerTurn /\ isExactMatch(cardPlayed, s.topCard)
    IN  IF ~isPlayerTurn /\ ~isJumpIn THEN s
        ELSE IF ~canPlay(cardPlayed, s.topCard) /\ ~isJumpIn THEN s
        ELSE
        LET s1 == [s EXCEPT !.hands[0] = RemoveAt(@, cardIndex),
                            !.discardPile = Append(@, cardPlayed),
                            !.topCard = cardPlayed]
            s2 == checkWin(s1, 0)
        IN  IF s2.gameOver THEN renderGame(s2)
            ELSE
            LET s3 == [s2 EXCEPT !.unoAwaitingCall = (Len(s2.hands[0]) = 1)]
                result == applyCardEffect(s3, cardPlayed, 0)
                s4 == IF cardPlayed.color = "BL"
                      THEN showColorPicker(s3, 0, cardPlayed.value)
                      ELSE [result.s EXCEPT !.currentPlayer =
                                IF isJumpIn THEN 0 ELSE result.nextPlayer]
            IN  renderGame(ClearAiTimeout(s4))

\* the part of handleComputerTurn shared by both play branches: the card has
\* left the hand; put it on the pile, check for a win, apply it
ComputerPlays(s, playerIndex, cardPlayed) ==
    LET s1 == [s EXCEPT !.discardPile = Append(@, cardPlayed), !.topCard = cardPlayed]
        s2 == checkWin(s1, playerIndex)
    IN  IF s2.gameOver THEN renderGame(s2)
        ELSE IF cardPlayed.color = "BL"
        THEN showColorPicker(s2, playerIndex, cardPlayed.value)
        ELSE LET result == applyCardEffect(s2, cardPlayed, playerIndex)
             IN  renderGame(ClearAiTimeout(
                     [result.s EXCEPT !.currentPlayer = result.nextPlayer]))

\* the UNO penalty check at the start of handleComputerTurn
UnoPenaltyCheck(s, playerIndex, k) ==
    LET previousPlayer == calculateNextPlayer(playerIndex, 0 - s.direction, 0 - 1)
    IN  IF s.unoAwaitingCall /\ previousPlayer = 0
        THEN [DrawLoop(s, 0, 2, k) EXCEPT !.unoAwaitingCall = FALSE]
        ELSE s

\* declareUno without the test of the hand size (line 765)
declareUno_AnyHandSize(s) ==
    ClearAiTimeout([s EXCEPT !.unoAwaitingCall = FALSE])

\* handleComputerTurn, run by the timer
handleComputerTurn(s, k) ==
    IF s.currentPlayer = 0 \/ s.gameOver \/ s.pickerDisplay # "none"
    THEN ClearAiTimeout(s)
    ELSE
    LET playerIndex == s.currentPlayer
        topCard == s.topCard
        s1 == UnoPenaltyCheck(s, playerIndex, k)
    IN  IF s1.pendingDraw > 0
        THEN renderGame(ClearAiTimeout(handleDrawAction(s1, playerIndex, k).s))
        ELSE
        LET computerHand == s1.hands[playerIndex]
            playableIndex == findBestPlayableCard(s1, computerHand, topCard, playerIndex)
        IN  IF playableIndex # 0
            THEN ComputerPlays([s1 EXCEPT !.hands[playerIndex] = RemoveAt(@, playableIndex)],
                               playerIndex, computerHand[playableIndex])
            ELSE
            LET d == handleDrawAction(s1, playerIndex, k)
                hand == d.s.hands[playerIndex]
            IN  IF d.playableFound
                THEN ComputerPlays([d.s EXCEPT !.hands[playerIndex] = Front(hand)],
                                   playerIndex, Last(hand))
                ELSE renderGame(ClearAiTimeout(
                         IF ~d.statusTurnPassed
                         THEN [d.s EXCEPT !.currentPlayer =
                                   calculateNextPlayer(playerIndex, d.s.direction, 0)]
                         ELSE d.s))

declareUno(s) ==
    IF Len(s.hands[0]) = 1
    THEN ClearAiTimeout([s EXCEPT !.unoAwaitingCall = FALSE])
    ELSE s

\* ------------------------------------------------------------------------
\* Game setup
\* ------------------------------------------------------------------------

\* initGame, given the deck createDeck returned
initGame(s, shuffledDeck) ==
    [s EXCEPT !.deck = shuffledDeck,
              !.discardPile = << >>,
              !.hands = [p \in Players |-> << >>],
              !.topCard = NoCard,
              !.currentPlayer = 0,
              !.direction = 1,
              !.pendingDraw = 0,
              !.unoAwaitingCall = FALSE,
              !.gameOver = FALSE,
              !.winner = 0 - 1,
              !.aiActionTimeout = "null"]

\* the two nested for loops of dealInitialCards: n pops left, the next one
\* for player p
RECURSIVE DealLoop(_, _, _)
DealLoop(s, n, p) ==
    IF n <= 0 THEN s
    ELSE DealLoop([s EXCEPT !.hands[p] = Append(@, Last(s.deck)), !.deck = Front(s.deck)],
                  n - 1, (p + 1) % NUM_PLAYERS)

\* the do-while loop of dealInitialCards: pops until the card is neither wild
\* nor an action card; the cards it rejects are not kept anywhere
RECURSIVE FlipStartCard(_, _)
FlipStartCard(deck, startCard) ==
    IF Len(deck) = 0 THEN [deck |-> deck, startCard |-> startCard]
    ELSE LET c == Last(deck)
         IN  IF c.color = "BL" \/ c.value \in {"D2", "S", "R"}
             THEN FlipStartCard(Front(deck), c)
             ELSE [deck |-> Front(deck), startCard |-> c]

\* dealInitialCards without the do-while of lines 95-98: the first card popped
\* after the deal starts the pile, whatever it is
dealInitialCards_AnyStartCard(s) ==
    LET s1 == DealLoop(s, HandSize * NUM_PLAYERS, 0)
    IN  [s1 EXCEPT !.deck = Front(s1.deck),
                   !.discardPile = Append(@, Last(s1.deck)),
                   !.topCard = Last(s1.deck)]

dealInitialCards(s) ==
    LET s1 == DealLoop(s, HandSize * NUM_PLAYERS, 0)
        f == FlipStartCard(s1.deck, NoCard)
    IN  [s1 EXCEPT !.deck = f.deck,
                   !.discardPile = Append(@, f.startCard),
                   !.topCard = f.startCard]

startGame(s, shuffledDeck) ==
    renderGame([dealInitialCards(initGame(ClearAiTimeout(s), shuffledDeck))
                   EXCEPT !.gameOver = FALSE])

\* ------------------------------------------------------------------------
\* Outcomes of createDeck's shuffle that the exploration starts games from
\* ------------------------------------------------------------------------

\* the order in which dealInitialCards pops the cards of the hands h
DealOrder(h) ==
    [n \in 1 .. (HandSize * NUM_PLAYERS) |->
        h[(n - 1) % NUM_PLAYERS][((n - 1) \div NUM_PLAYERS) + 1]]

\* the permutation of createDeck's cards that deals the hands h and then pops
\* the cards of `after`; the other cards keep createDeck's order below them
Stacked(h, after) ==
    LET pops == DealOrder(h) \o after
    IN  RemoveEach(UnshuffledDeck, pops) \o Reverse(pops)

\* player 0 holds pairs of red numerals (a chain of jump-ins), computer 1 a red
\* Reverse and a red DrawTwo; the first card flipped is a numeral
ShuffleRed ==
    Stacked(
        [p \in Players |->
            CASE p = 0 -> <<Card("R", "5"), Card("R", "5"), Card("R", "7"), Card("R", "7"),
                            Card("R", "9"), Card("R", "9"), Card("R", "3")>>
              [] p = 1 -> <<Card("R", "R"), Card("R", "D2"), Card("G", "1"), Card("G", "2"),
                            Card("G", "3"), Card("G", "4"), Card("G", "6")>>
              [] p = 2 -> <<Card("R", "6"), Card("R", "6"), Card("R", "8"), Card("R", "8"),
                            Card("R", "0"), Card("R", "1"), Card("G", "0")>>
              [] p = 3 -> <<Card("R", "2"), Card("R", "2"), Card("R", "4"), Card("R", "4"),
                            Card("R", "3"), Card("G", "5"), Card("G", "7")>>],
        <<Card("R", "1")>>)

\* player 0 holds seven wild cards; the first card flipped is the eighth wild
\* card, the second a numeral
ShuffleWild ==
    Stacked(
        [p \in Players |->
            CASE p = 0 -> <<Card("BL", "W"), Card("BL", "W"), Card("BL", "W"),
                            Card("BL", "W"), Card("BL", "W4"), Card("BL", "W4"),
                            Card("BL", "W4")>>
              [] p = 1 -> <<Card("R", "2"), Card("R", "4"), Card("G", "1"), Card("G", "2"),
                            Card("G", "3"), Card("G", "4"), Card("G", "6")>>
              [] p = 2 -> <<Card("R", "6"), Card("B", "6"), Card("R", "8"), Card("B", "8"),
                            Card("R", "0"), Card("B", "1"), Card("G", "0")>>
              [] p = 3 -> <<Card("Y", "2"), Card("B", "2"), Card("Y", "4"), Card("B", "4"),
                            Card("R", "3"), Card("G", "5"), Card("G", "7")>>],
        <<Card("BL", "W4"), Card("R", "1")>>)

\* the Fisher-Yates pass leaves createDeck's order as it is (every j = i): the
\* wild and action cards are dealt, and four action cards are flipped before
\* the first numeral
ShuffleIdentity == UnshuffledDeck

\* every wild card and every action card but one red DrawTwo is flipped before
\* the first numeral (a red 0): the deck is left with 48 cards, none of which
\* computer 1 can play before the last one, so the deck runs out and the
\* discard pile is reshuffled within a few turns
ShuffleThin ==
    Stacked(
        [p \in Players |->
            CASE p = 0 -> <<Card("R", "2"), Card("R", "2"), Card("R", "3"), Card("R", "3"),
                            Card("R", "4"), Card("R", "4"), Card("G", "0")>>
              [] p = 1 -> <<Card("G", "1"), Card("G", "2"), Card("G", "3"), Card("G", "4"),
                            Card("G", "5"), Card("G", "6"), Card("G", "7")>>
              [] p = 2 -> <<Card("R", "5"), Card("R", "5"), Card("R", "6"), Card("R", "6"),
                            Card("R", "7"), Card("R", "7"), Card("B", "0")>>
              [] p = 3 -> <<Card("R", "D2"), Card("R", "8"), Card("R", "8"), Card("R", "9"),
                            Card("R", "9"), Card("R", "1"), Card("Y", "0")>>],
        RemoveEach(Flatten([k \in 1 .. Len(colors) |-> ActionCards(colors[k])]),
                   <<Card("R", "D2")>>)
          \o WildCards \o <<Card("R", "0")>>)

\* as ShuffleThin, but every red card and every 0 is in the hands of players
\* 0, 2 and 3: after the start card R0 no card of the deck and no card of
\* computer 1 can be played
ShuffleDry ==
    Stacked(
        [p \in Players |->
            CASE p = 0 -> <<Card("R", "2"), Card("R", "2"), Card("R", "3"), Card("R", "3"),
                            Card("R", "4"), Card("R", "4"), Card("G", "0")>>
              [] p = 1 -> <<Card("G", "1"), Card("G", "2"), Card("G", "3"), Card("G", "4"),
                            Card("G", "5"), Card("G", "6"), Card("G", "7")>>
              [] p = 2 -> <<Card("R", "5"), Card("R", "5"), Card("R", "6"), Card("R", "6"),
                            Card("R", "7"), Card("R", "7"), Card("B", "0")>>
              [] p = 3 -> <<Card("R", "1"), Card("R", "8"), Card("R", "8"), Card("R", "9"),
                            Card("R", "9"), Card("R", "1"), Card("Y", "0")>>],
        Flatten([k \in 1 .. Len(colors) |-> ActionCards(colors[k])])
          \o WildCards \o <<Card("R", "0")>>)

Shuffles == {ShuffleRed, ShuffleWild, ShuffleIdentity, ShuffleThin, ShuffleDry}

\* ------------------------------------------------------------------------
\* The state machine
\* ------------------------------------------------------------------------

VARIABLES
    deck, discardPile, hands, topCard, currentPlayer, direction, pendingDraw,
    unoAwaitingCall, gameOver, winner, aiActionTimeout,
    pickerDisplay, pickerWildValue,
    outstandingTimers,
    steps

vars == <<deck, discardPile, hands, topCard, currentPlayer, direction, pendingDraw,
          unoAwaitingCall, gameOver, winner, aiActionTimeout,
          pickerDisplay, pickerWildValue, outstandingTimers, steps>>

\* the fields of gameState and of the color picker, and the number of timers
\* started by setTimeout that have neither fired nor been cleared, as one
\* record
State ==
    [deck |-> deck, discardPile |-> discardPile, hands |-> hands, topCard |-> topCard,
     currentPlayer |-> currentPlayer, direction |-> direction,
     pendingDraw |-> pendingDraw, unoAwaitingCall |-> unoAwaitingCall,
     gameOver |-> gameOver, winner |-> winner, aiActionTimeout |-> aiActionTimeout,
     pickerDisplay |-> pickerDisplay, pickerWildValue |-> pickerWildValue,
     outstandingTimers |-> outstandingTimers]

\* the handler's result becomes the next state; steps counts the handler
\* executions that changed something
Becomes(s) ==
    /\ deck' = s.deck
    /\ discardPile' = s.discardPile
    /\ hands' = s.hands
    /\ topCard' = s.topCard
    /\ currentPlayer' = s.currentPlayer
    /\ direction' = s.direction
    /\ pendingDraw' = s.pendingDraw
    /\ unoAwaitingCall' = s.unoAwaitingCall
    /\ gameOver' = s.gameOver
    /\ winner' = s.winner
    /\ aiActionTimeout' = s.aiActionTimeout
    /\ pickerDisplay' = s.pickerDisplay
    /\ pickerWildValue' = s.pickerWildValue
    /\ outstandingTimers' = s.outstandingTimers
    /\ steps' = IF s = State THEN steps ELSE steps + 1

\* the DOMContentLoaded listener: initGame, then an empty table and a game
\* that is over until the start button is pressed; the picker is hidden
Init ==
    /\ deck = << >>
    /\ discardPile = << >>
    /\ hands = [p \in Players |-> << >>]
    /\ topCard = NoCard
    /\ currentPlayer = 0
    /\ direction = 1
    /\ pendingDraw = 0
    /\ unoAwaitingCall = FALSE
    /\ gameOver = TRUE
    /\ winner = 0 - 1
    /\ aiActionTimeout = "null"
    /\ pickerDisplay = "none"
    /\ pickerWildValue = "null"
    /\ outstandingTimers = 0
    /\ steps = 0

\* the start button, shown by renderGame only while the game is over
StartGame ==
    /\ steps < MaxSteps
    /\ gameOver
    /\ \E d \in Shuffles : Becomes(startGame(State, d))

\* the draw button: handlePlayerAction(null)
PlayerDraws ==
    /\ steps < MaxSteps
    /\ \E k \in 0 .. MaxRot : Becomes(handlePlayerAction(State, 0, k))

\* a click on card i of player 0's hand: handlePlayerAction(i)
PlayerClicksCard ==
    /\ steps < MaxSteps
    /\ \E i \in 1 .. Len(hands[0]) : Becomes(handlePlayerAction(State, i, 0))

\* a click on a button of the color picker while it is shown
PlayerPicksColor ==
    /\ steps < MaxSteps
    /\ pickerDisplay # "none"
    /\ \E k \in 1 .. Len(colors) : Becomes(setWildColor(State, colors[k], pickerWildValue))

\* the UNO button
PlayerDeclaresUno ==
    /\ steps < MaxSteps
    /\ Becomes(declareUno(State))

\* the timer set by renderGame fires and runs handleComputerTurn
ComputerTimerFires ==
    /\ steps < MaxSteps
    /\ outstandingTimers > 0
    /\ \E k \in 0 .. MaxRot :
          Becomes(handleComputerTurn(TimerFires(State), k))

Next ==
    \/ StartGame
    \/ PlayerDraws
    \/ PlayerClicksCard
    \/ PlayerPicksColor
    \/ PlayerDeclaresUno
    \/ ComputerTimerFires

Spec == Init /\ [][Next]_vars

\* ------------------------------------------------------------------------
\* Vocabulary of the properties
\* ------------------------------------------------------------------------

\* startGame has run at least once (it always leaves a top card)
Started == topCard # NoCard

TotalCards ==
    Len(deck) + Len(discardPile) + Len(hands[0]) + Len(hands[1]) + Len(hands[2])
        + Len(hands[3])

\* cards a draw can still obtain: the deck plus what a reshuffle would add
Drawable == Len(deck) + (IF Len(discardPile) > 1 THEN Len(discardPile) - 1 ELSE 0)

\* a color choice is pending: player 0 has played a wild card, the picker is
\* shown and setWildColor has not run for that card
ColorChoicePending ==
    /\ ~gameOver
    /\ pickerDisplay # "none"
    /\ topCard.color = "BL"
    /\ topCard.nextColor = "none"

\* this step puts a card of player p on the discard pile
Plays(p) ==
    /\ Len(hands'[p]) = Len(hands[p]) - 1
    /\ Len(discardPile') = Len(discardPile) + 1
    /\ \E i \in 1 .. Len(hands[p]) :
          /\ hands'[p] = RemoveAt(hands[p], i)
          /\ Last(discardPile') = hands[p][i]

\* this step is a jump-in: player 0 plays a card while it is a computer's turn
JumpIn == ~gameOver /\ currentPlayer # 0 /\ Plays(0)

\* this step is a timer callback in which handleComputerTurn does not return
\* at its first test
ComputerActs ==
    /\ currentPlayer # 0
    /\ ~gameOver
    /\ pickerDisplay = "none"
    /\ ComputerTimerFires

\* ------------------------------------------------------------------------
\* Properties
\* ------------------------------------------------------------------------

\* C1: after startGame and after every later operation, deck + discard pile +
\* the four hands hold 108 cards.
C1_CardConservation == Started => TotalCards = DeckSize

\* C2: a seat whose turn starts with pendingDraw > 0 plays nothing but a
\* stacking draw card (DrawTwo or WildDrawFour): whenever the current player
\* puts a card on the pile while pendingDraw > 0 (here: in a session in which
\* the color picker has never been opened), that card is a D2 or a W4.
C2_PendingDrawResolvedFirst ==
    [][(~gameOver /\ pendingDraw > 0 /\ pickerWildValue = "null" /\ Plays(currentPlayer))
         => Last(discardPile').value \in {"D2", "W4"}]_vars

\* C3: when a computer turn begins while player 0 holds one card and has not
\* declared UNO (unoAwaitingCall), player 0 receives exactly 2 penalty cards
\* (cards permitting) and unoAwaitingCall becomes false.  Stated for sessions
\* in which the color picker has never been opened (player 0 has played
\* colored cards only).
C3_UnoPenaltyApplied ==
    [][(ComputerActs /\ unoAwaitingCall /\ Len(hands[0]) = 1 /\ Drawable >= 2
          /\ pickerWildValue = "null")
         => (Len(hands'[0]) = 3 /\ ~unoAwaitingCall')]_vars

\* C4: after startGame, a player whose hand is empty is the winner of a game
\* that is over, and a game is over only if the hand of `winner` is empty.
C4_EmptyHandIffGameOver ==
    Started =>
        /\ \A p \in Players : Len(hands[p]) = 0 => (gameOver /\ winner = p)
        /\ gameOver => (winner \in Players /\ Len(hands[winner]) = 0)

\* C4 witness: player 0 has played its last card and the game is over
C4_Witness == Started /\ gameOver /\ winner = 0 /\ Len(hands[0]) = 0

\* C5: once the game is over, nothing but startGame (the only step that ends
\* with gameOver false) changes the hands, the deck, the discard pile, topCard,
\* currentPlayer, direction, pendingDraw or winner.
C5_FrozenAfterGameOver ==
    [][(Started /\ gameOver /\ gameOver')
         => UNCHANGED <<hands, deck, discardPile, topCard, currentPlayer, direction,
                        pendingDraw, winner>>]_vars

\* C6: when a color choice is pending for a wild played by player 0,
\* setWildColor applies the effect once as played by player 0 (no skip, no
\* reverse, +4 only for a W4), makes the seat after player 0 the current
\* player, and closes the picker.
C6_ColorChoiceForThePlayer ==
    [][(ColorChoicePending /\ PlayerPicksColor)
         => /\ pickerDisplay' = "none"
            /\ direction' = direction
            /\ currentPlayer' = calculateNextPlayer(0, direction, 0)
            /\ pendingDraw' = pendingDraw + (IF pickerWildValue = "W4" THEN 4 ELSE 0)]_vars

\* C7: while a color choice of player 0 is pending, a step that is not
\* setWildColor (a draw request, a card click) leaves hands, deck, discard
\* pile, topCard and currentPlayer unchanged.
C7_NoMoveWhileChoosingColor ==
    [][(ColorChoicePending /\ currentPlayer = 0 /\ ~PlayerPicksColor)
         => UNCHANGED <<hands, deck, discardPile, topCard, currentPlayer>>]_vars

\* C8: a card accepted from player 0 while currentPlayer is not 0 (here: with
\* no color choice left pending) has the color and the value of the top card
\* and is never a wild-family card.
C8_JumpInIsExactAndNotWild ==
    [][(JumpIn /\ pickerDisplay = "none")
         => /\ Last(discardPile').color = topCard.color
            /\ Last(discardPile').value = topCard.value
            /\ Last(discardPile').color # "BL"]_vars

\* C9: after a jump-in that does not end the game (made with no color choice
\* left pending), currentPlayer is 0 and no computer turn is left scheduled.
C9_JumperBecomesCurrent ==
    [][(JumpIn /\ pickerDisplay = "none" /\ ~gameOver')
         => (currentPlayer' = 0 /\ aiActionTimeout' # "pending")]_vars

\* this step is a penalty draw by the current player p: the draw button on
\* player 0's turn, or a computer turn, with pendingDraw > 0
PenaltyDrawBy(p) ==
    /\ ~gameOver
    /\ pendingDraw > 0
    /\ currentPlayer = p
    /\ IF p = 0 THEN PlayerDraws /\ ~Plays(0) ELSE ComputerActs

\* C10: a penalty draw of k = pendingDraw available cards adds exactly k cards
\* to the current player's hand, resets pendingDraw, passes the turn to the
\* next seat and plays no card; and once player 0 has played a W4 with
\* pendingDraw = 0 and chooses a color, pendingDraw is 4 and it is the turn of
\* the seat after player 0, which is the one to draw the 4 cards.
C10_PenaltyDraw ==
    [][/\ \A p \in Players :
            (PenaltyDrawBy(p) /\ Drawable >= pendingDraw)
              => /\ Len(hands'[p]) = Len(hands[p]) + pendingDraw
                 /\ pendingDraw' = 0
                 /\ currentPlayer' = calculateNextPlayer(p, direction, 0)
                 /\ Last(discardPile') = Last(discardPile)
       /\ (ColorChoicePending /\ PlayerPicksColor /\ topCard.value = "W4"
             /\ pendingDraw = 0)
              => /\ pendingDraw' = 4
                 /\ currentPlayer' = calculateNextPlayer(0, direction, 0)]_vars

\* this step puts a card on the discard pile of a running game: the pile grows
\* by one card, or (a computer's draw-till-match on an empty deck) the pile is
\* reshuffled down to its top card and the drawn card is put on it
PutOnPile ==
    /\ Started
    /\ ~gameOver
    /\ \/ /\ Len(discardPile') = Len(discardPile) + 1
          /\ Front(discardPile') = discardPile
       \/ /\ Len(deck) = 0
          /\ Len(discardPile) >= 2
          /\ Len(discardPile') = 2
          /\ discardPile'[1] = Last(discardPile)
          /\ ComputerActs

\* the card this step puts on the pile
PlayedCard == Last(discardPile')

\* this step is a penalty draw
PenaltyDraw == \E p \in Players : PenaltyDrawBy(p)

\* C11: pendingDraw grows by 2 with each D2 played and by 4 with each W4 played
\* (for player 0 when the color of the W4 is chosen, for a computer within its
\* turn), a penalty draw resets it to 0, and no other step of a running game
\* changes it.
C11_PendingDrawArithmetic ==
    [][(Started /\ ~gameOver /\ ~gameOver') =>
          IF PenaltyDraw THEN pendingDraw' = 0
          ELSE IF PutOnPile /\ PlayedCard.value = "D2" THEN pendingDraw' = pendingDraw + 2
          ELSE IF PutOnPile /\ PlayedCard.value = "W4" /\ ComputerActs
               THEN pendingDraw' = pendingDraw + 4
          ELSE IF ColorChoicePending /\ PlayerPicksColor /\ topCard.value = "W4"
               THEN pendingDraw' = pendingDraw + 4
          ELSE pendingDraw' = pendingDraw]_vars

\* this step is a play by the current player p on p's own turn
OwnTurnPlay(p) ==
    /\ currentPlayer = p
    /\ PutOnPile
    /\ IF p = 0 THEN PlayerClicksCard ELSE ComputerActs

\* the seat n places after p in direction d
SeatAfter(p, d, n) == (p + n * d + 2 * NUM_PLAYERS) % NUM_PLAYERS

\* C12: a Skip played by the current player p on p's own turn (and not as p's
\* last card) makes (p + 2*direction) mod 4 the current player and leaves the
\* direction unchanged.
C12_SkipSkipsOneSeat ==
    [][\A p \in Players :
          (PutOnPile /\ PlayedCard.value = "S" /\ ~gameOver' /\ OwnTurnPlay(p))
            => /\ currentPlayer' = SeatAfter(p, direction, 2)
               /\ direction' = direction]_vars

\* C12 witness: player 0 has opened the game with a Skip and it is the turn of
\* seat 2
C12_Witness ==
    /\ Started /\ ~gameOver
    /\ Len(discardPile) = 2
    /\ topCard.value = "S"
    /\ Len(hands[0]) = HandSize - 1
    /\ currentPlayer = 2

\* C13: a Reverse played by the current player p on p's own turn (and not as
\* p's last card) flips the direction and makes (p - direction) mod 4, the
\* neighbour of p in the new direction, the current player.
C13_ReverseTurnsAround ==
    [][\A p \in Players :
          (PutOnPile /\ PlayedCard.value = "R" /\ ~gameOver' /\ OwnTurnPlay(p))
            => /\ direction' = 0 - direction
               /\ currentPlayer' = SeatAfter(p, 0 - direction, 1)]_vars

\* C13 witness: computer 1 has played a Reverse in the starting direction and
\* the turn is back with player 0
C13_Witness ==
    /\ Started /\ ~gameOver
    /\ topCard.value = "R"
    /\ direction = 0 - 1
    /\ currentPlayer = 0
    /\ Len(hands[1]) = HandSize - 1

\* this step is a free draw of player 0: the draw button on player 0's turn
\* with no penalty pending and a card left to draw
HumanFreeDraw ==
    /\ ~gameOver
    /\ currentPlayer = 0
    /\ pendingDraw = 0
    /\ Drawable >= 1
    /\ PlayerDraws

\* C16: a free draw of player 0 adds exactly one card to player 0's hand; if
\* that card cannot be played on the top card the next seat in the current
\* direction becomes the current player, and if it can, player 0 stays the
\* current player.
C16_HumanDrawsOneCard ==
    [][HumanFreeDraw =>
          /\ Len(hands'[0]) = Len(hands[0]) + 1
          /\ Front(hands'[0]) = hands[0]
          /\ \A p \in Players \ {0} : hands'[p] = hands[p]
          /\ IF canPlay(Last(hands'[0]), topCard)
             THEN currentPlayer' = 0
             ELSE currentPlayer' = SeatAfter(0, direction, 1)]_vars

\* player 0 has drawn, as the first move of a game, a card that cannot be
\* played, and the turn has passed to seat 1
C16_Witness ==
    /\ Started /\ ~gameOver
    /\ Len(discardPile) = 1
    /\ Len(hands[0]) = HandSize + 1
    /\ ~canPlay(Last(hands[0]), topCard)
    /\ currentPlayer = 1

\* player 0 has opened the game with a free draw of a playable card and has
\* not played since: the pile holds the start card only, the hand one card
\* more than was dealt, and it is still player 0's turn
DrewPlayableCard ==
    /\ Started /\ ~gameOver
    /\ Len(discardPile) = 1
    /\ Len(hands[0]) = HandSize + 1
    /\ canPlay(Last(hands[0]), topCard)
    /\ currentPlayer = 0
    /\ pendingDraw = 0

\* C17: if player 0 free-draws a playable card and then, without playing,
\* requests a draw a second time in the same turn, the second request ends
\* player 0's turn: the next seat becomes the current player.
C17_SecondDrawEndsTurn ==
    [][(DrewPlayableCard /\ PlayerDraws)
          => currentPlayer' = SeatAfter(0, direction, 1)]_vars

\* this step is a free draw of computer p: its turn, no penalty pending and
\* no card of its hand playable on the top card
ComputerFreeDraw(p) ==
    /\ currentPlayer = p
    /\ pendingDraw = 0
    /\ \A i \in 1 .. Len(hands[p]) : ~canPlay(hands[p][i], topCard)
    /\ ComputerActs

\* the cards computer p has drawn in this step and still holds
KeptCards(p) == SubSeq(hands'[p], Len(hands[p]) + 1, Len(hands'[p]))

\* C18: in a free draw a computer draws until the first card playable on the
\* top card or until nothing can be drawn.  The cards it keeps are all
\* unplayable; if a playable card was drawn, that card and no other goes onto
\* the discard pile in the same step and its effect is applied for the
\* computer; if none was drawn, the deck is exhausted and nothing is played.
C18_ComputerDrawsTillMatch ==
    [][\A p \in Players \ {0} : ComputerFreeDraw(p) =>
          /\ Len(hands'[p]) >= Len(hands[p])
          /\ SubSeq(hands'[p], 1, Len(hands[p])) = hands[p]
          /\ \A i \in 1 .. Len(KeptCards(p)) : ~canPlay(KeptCards(p)[i], topCard)
          /\ \A q \in Players \ {0, p} : hands'[q] = hands[q]
          /\ TotalCards' = TotalCards
          /\ IF Len(discardPile') >= 2
             THEN LET played == Last(discardPile')
                      result == applyCardEffect(State, played, p)
                  IN  /\ \/ discardPile' = Append(discardPile, played)
                         \/ Len(deck) < Len(KeptCards(p)) + 1 + (Len(hands'[0]) - Len(hands[0]))
                              /\ discardPile' = <<Last(discardPile), played>>
                      /\ canPlay(played, topCard)
                      /\ topCard'.color = played.color /\ topCard'.value = played.value
                      /\ Drawable' = Drawable - Len(KeptCards(p)) - (Len(hands'[0]) - Len(hands[0]))
                      /\ IF Len(hands'[p]) = 0
                         THEN gameOver' /\ winner' = p
                         ELSE /\ currentPlayer' = result.nextPlayer
                              /\ direction' = result.s.direction
                              /\ pendingDraw' = result.s.pendingDraw
             ELSE /\ Len(deck') = 0
                  /\ discardPile' = discardPile
                  /\ topCard' = topCard]_vars

\* computer 1 holds more cards than were dealt in a game whose second card on
\* the pile is its own and in which no penalty card has been played: in a free
\* draw it has drawn cards it could not play, kept them, and played the
\* first playable one
C18_Witness ==
    /\ Started /\ ~gameOver
    /\ Len(hands[1]) > HandSize
    /\ Len(discardPile) = 2
    /\ \A i \in 1 .. Len(discardPile) : discardPile[i].value \notin {"D2", "W4"}
    /\ \A i \in HandSize + 1 .. Len(hands[1]) : ~canPlay(hands[1][i], discardPile[1])
    /\ pendingDraw = 0
    /\ currentPlayer = 2

\* the kinds of card of the deck
CardKinds == {UnshuffledDeck[i] : i \in 1 .. DeckSize}

\* the cards of all four hands, the deck and the discard pile of state s
TotalCardsOf(s) ==
    Len(s.deck) + Len(s.discardPile) + Len(s.hands[0]) + Len(s.hands[1])
        + Len(s.hands[2]) + Len(s.hands[3])

\* C19: reshuffleDeck run with an empty deck and a discard pile of n >= 2
\* cards returns true and leaves a discard pile of exactly the previous top
\* card and a deck of exactly the other n - 1 discard cards (as a multiset),
\* with all hands and the total number of cards unchanged; run with a discard
\* pile of 0 or 1 cards it returns false and changes nothing.
C19_ReshuffleKeepsTheCards ==
    Len(deck) = 0 =>
        \A k \in 0 .. MaxRot :
            LET r == reshuffleDeck(State, k)
            IN  IF Len(discardPile) >= 2
                THEN /\ r.ok
                     /\ r.s.discardPile = <<Last(discardPile)>>
                     /\ Len(r.s.deck) = Len(discardPile) - 1
                     /\ \A c \in CardKinds :
                           Occurrences(r.s.deck, c) = Occurrences(Front(discardPile), c)
                     /\ r.s.hands = hands
                     /\ TotalCardsOf(r.s) = TotalCards
                     /\ r.s.topCard = topCard
                ELSE ~r.ok /\ r.s = State

\* a reshuffle has taken place: the deck of a game has been drained into
\* computer 1's hand, cards have been played onto the pile since, and the
\* pile is down to its top card again
C19_Witness ==
    /\ Started /\ ~gameOver
    /\ Len(hands[1]) > 2 * HandSize
    /\ Len(discardPile) = 1
    /\ Len(deck) > 0

\* the part of a state that a rejected move must leave alone
TableOf(s) ==
    <<s.hands, s.deck, s.discardPile, s.topCard, s.currentPlayer, s.direction,
      s.pendingDraw, s.unoAwaitingCall, s.gameOver>>

\* handlePlayerAction rejects cardIndex (0: the draw request) in this state:
\* (a) a draw request while it is not player 0's turn, (b) a card that is not
\* an exact match of the top card while it is not player 0's turn, (c) a card
\* that is not playable on player 0's turn
Rejected(cardIndex) ==
    IF cardIndex = 0 THEN currentPlayer # 0
    ELSE IF currentPlayer # 0 THEN ~isExactMatch(hands[0][cardIndex], topCard)
    ELSE ~canPlay(hands[0][cardIndex], topCard)

\* C21: a move that handlePlayerAction rejects changes nothing in hands, deck,
\* discard pile, topCard, currentPlayer, direction, pendingDraw,
\* unoAwaitingCall and gameOver.
C21_RejectedMovesChangeNothing ==
    \A cardIndex \in 0 .. Len(hands[0]) : \A k \in 0 .. MaxRot :
        Rejected(cardIndex) =>
            TableOf(handlePlayerAction(State, cardIndex, k)) = TableOf(State)

\* it is player 0's turn in a running game and player 0 holds a card that is
\* not playable (and, the turn having come round, a computer has played)
C21_Witness ==
    /\ Started /\ ~gameOver
    /\ currentPlayer = 0
    /\ Len(discardPile) >= 2
    /\ \E i \in 1 .. Len(hands[0]) : Rejected(i)


\* C22: declareUno sets unoAwaitingCall to false exactly when player 0 holds
\* one card and leaves the flag as it is for every other hand size; in every
\* case hands, deck, discard pile, topCard, currentPlayer, direction and
\* pendingDraw stay as they are.
C22_DeclareUno ==
    LET s == declareUno(State)
    IN  /\ Len(hands[0]) = 1 => ~s.unoAwaitingCall
        /\ Len(hands[0]) # 1 => s.unoAwaitingCall = unoAwaitingCall
        /\ <<s.hands, s.deck, s.discardPile, s.topCard, s.currentPlayer,
             s.direction, s.pendingDraw>>
           = <<hands, deck, discardPile, topCard, currentPlayer, direction,
               pendingDraw>>

\* player 0 holds one card and has declared UNO while a computer is to move:
\* the flag is down and the computer's timer is cleared
C22_Witness ==
    /\ Started /\ ~gameOver
    /\ Len(hands[0]) = 1
    /\ ~unoAwaitingCall
    /\ currentPlayer # 0
    /\ aiActionTimeout = "null"


\* C23: in every reachable state unoAwaitingCall is true only if player 0
\* holds exactly one card, so that no draw, penalty draw or play that takes
\* player 0's hand away from one card leaves the flag up.
C23_UnoFlagMeansOneCard ==
    unoAwaitingCall => Len(hands[0]) = 1


WildFamily(card) == card.value \in {"W", "W4"}

\* the color a card has to match: the color chosen for a wild top card, the
\* printed color of any other top card
ActiveColor(top) == IF WildFamily(top) THEN top.nextColor ELSE top.color

\* handlePlayerAction plays the card at cardIndex of player 0's hand: the card
\* goes on the discard pile
Accepted(cardIndex, k) ==
    handlePlayerAction(State, cardIndex, k).discardPile
        = Append(discardPile, hands[0][cardIndex])

\* C24: on player 0's own turn a card is accepted exactly if it is a Wild or
\* WildDrawFour, or its value is the top card's value, or its color is the
\* active color (the chosen color of a wild top card, else the printed color);
\* the printed color 'BL' of a wild top card lets no colored card through.
C24_PlayLegality ==
    (Started /\ ~gameOver /\ currentPlayer = 0) =>
        \A cardIndex \in 1 .. Len(hands[0]) : \A k \in 0 .. MaxRot :
            LET card == hands[0][cardIndex]
            IN  Accepted(cardIndex, k) <=>
                    \/ WildFamily(card)
                    \/ card.value = topCard.value
                    \/ card.color = ActiveColor(topCard)


\* C28: immediately after startGame every player holds exactly 7 cards, the
\* discard pile holds exactly one card, which is a numeral (neither wild nor
\* Skip, Reverse or DrawTwo) and equals topCard, currentPlayer = 0,
\* direction = +1, pendingDraw = 0, unoAwaitingCall = false and
\* gameOver = false.
C28_StateAfterStartGame ==
    [][(gameOver /\ StartGame) =>
          /\ \A p \in Players : Len(hands'[p]) = HandSize
          /\ Len(discardPile') = 1
          /\ IsNumber(discardPile'[1].value)
          /\ discardPile'[1].color # "BL"
          /\ discardPile'[1].value \notin {"W", "W4", "S", "R", "D2"}
          /\ topCard' = discardPile'[1]
          /\ currentPlayer' = 0
          /\ direction' = 1
          /\ pendingDraw' = 0
          /\ ~unoAwaitingCall'
          /\ ~gameOver']_vars

\* a game has just been started from a deck whose first cards after the deal
\* were turned down as start cards
C28_Witness ==
    /\ steps = 1
    /\ Started /\ ~gameOver
    /\ Len(discardPile) = 1
    /\ \A p \in Players : Len(hands[p]) = HandSize
    /\ Len(deck) < DeckSize - (HandSize * NUM_PLAYERS) - 1

\* the color canPlay matches against the top card after this step
NextActiveColor ==
    IF topCard'.nextColor # "none" THEN topCard'.nextColor ELSE topCard'.color

\* this step is a play of a numeral from the hand of the current player p on
\* p's own turn, and not of p's last card
NumeralPlay(p) ==
    /\ currentPlayer = p
    /\ PutOnPile
    /\ IsNumber(PlayedCard.value)
    /\ ~gameOver'
    /\ Len(hands'[p]) < Len(hands[p])
    /\ OwnTurnPlay(p)

\* C29: when the current player p plays a numeral from its hand on its own
\* turn (not its last card), p's hand shrinks by exactly that card, the card
\* becomes the last element of the discard pile and the topCard, the active
\* color becomes the card's printed color, currentPlayer becomes
\* (p + direction) mod 4, and the deck, every other hand, direction and
\* pendingDraw are unchanged.
C29_NumeralPlayFrame ==
    [][\A p \in Players : NumeralPlay(p) =>
          /\ Plays(p)
          /\ topCard' = PlayedCard
          /\ NextActiveColor = PlayedCard.color
          /\ currentPlayer' = SeatAfter(p, direction, 1)
          /\ deck' = deck
          /\ \A q \in Players \ {p} : hands'[q] = hands[q]
          /\ direction' = direction
          /\ pendingDraw' = pendingDraw]_vars

\* computer 3 has put a numeral from its hand on the pile while the game runs
\* against the clock: the turn is with computer 2
C29_Witness ==
    /\ Started /\ ~gameOver
    /\ direction = 0 - 1
    /\ currentPlayer = 2
    /\ Len(discardPile) >= 3
    /\ IsNumber(topCard.value)
    /\ Len(hands[3]) = HandSize - 1
    /\ pendingDraw = 0

\* C34: while the game runs, play can continue: on a computer's turn with no
\* color choice open a computer-turn timer is pending, and an open color
\* choice is completed by one setWildColor call, after which the picker is
\* closed.
C34_PlayCanContinue ==
    (Started /\ ~gameOver) =>
        /\ (currentPlayer # 0 /\ pickerDisplay = "none") => aiActionTimeout = "pending"
        /\ pickerDisplay # "none" =>
              \A i \in 1 .. Len(colors) :
                  setWildColor(State, colors[i], pickerWildValue).pickerDisplay = "none"

\* C35: at most one computer-turn timer is outstanding at any time, and a
\* timer that fires on player 0's turn, after the end of the game or while
\* the color picker is open changes nothing on the table: handleComputerTurn
\* acts only for a computer, in a running game, with no color choice open.
C35_TimerDiscipline ==
    /\ [](outstandingTimers <= 1)
    /\ [][((currentPlayer = 0 \/ gameOver \/ pickerDisplay # "none") /\ ComputerTimerFires)
            => UNCHANGED <<hands, deck, discardPile, topCard, currentPlayer, direction,
                           pendingDraw, unoAwaitingCall, gameOver, winner,
                           pickerDisplay>>]_vars

\* computer 1 has played a card when its timer fired, and the timer of
\* computer 2 is the one outstanding
C35_Witness ==
    /\ Started /\ ~gameOver
    /\ Len(hands[1]) = HandSize - 1
    /\ currentPlayer = 2
    /\ aiActionTimeout = "pending"
    /\ outstandingTimers = 1

\* player p's DrawTwo or WildDrawFour takes effect in this step: pendingDraw
\* grows as p's card reaches the pile or, for a wild card of player 0, as its
\* color is chosen
DrawCardBy(p) ==
    /\ pendingDraw' > pendingDraw
    /\ \/ Plays(p)
       \/ p = 0 /\ pickerDisplay # "none" /\ \A q \in Players : ~Plays(q)

\* C36: the pending draw created by a DrawTwo or WildDrawFour is not owed by
\* the player who played that card: once the card has taken effect, with no
\* color choice open, the turn is with another player, also when the card was
\* played as a jump-in.
C36_DrawNotOwedByItsPlayer ==
    [][\A p \in Players :
          (DrawCardBy(p) /\ ~gameOver' /\ pickerDisplay' = "none")
              => currentPlayer' # p]_vars

\* C38: after startGame the discard pile is not empty and topCard has the
\* value and the printed color of the last card of discardPile, also after a
\* color choice and after a reshuffle.
C38_TopCardIsPileTop ==
    Started =>
        /\ Len(discardPile) > 0
        /\ topCard.value = Last(discardPile).value
        /\ topCard.color = Last(discardPile).color

\* ------------------------------------------------------------------------
\* The computer's strategy on chosen hands: computer 1 is to move in the state
\* a reshuffle leaves (one card on the discard pile, the rest in the deck),
\* with every short hand over a pool of cards and three top cards
\* ------------------------------------------------------------------------

MaxHand == 3

\* the cards computer 1's hand is made of
StrategyPool ==
    <<Card("BL", "W4"), Card("BL", "W"), Card("R", "D2"), Card("R", "S"),
      Card("G", "S"), Card("R", "R"), Card("R", "7"), Card("G", "7"),
      Card("R", "3"), Card("B", "9")>>

\* a numeral, a numeral that matches by value only, a Wild with red chosen
StrategyTops ==
    {Card("R", "5"), Card("G", "7"),
     [color |-> "BL", value |-> "W", nextColor |-> "R"]}

\* the hands of the other players, cut to their sizes
OtherHand(p) ==
    CASE p = 0 -> <<Card("Y", "1"), Card("Y", "2"), Card("Y", "4")>>
      [] p = 2 -> <<Card("Y", "6"), Card("Y", "8"), Card("B", "1")>>
      [] OTHER -> <<Card("B", "2"), Card("B", "4"), Card("B", "6")>>

\* the hands of n pairwise different cards of the pool, in every order
StrategyHandsOf(n) ==
    {[i \in 1 .. n |-> StrategyPool[f[i]]] :
        f \in {g \in [1 .. n -> 1 .. Len(StrategyPool)] :
                  \A i, j \in 1 .. n : i # j => g[i] # g[j]}}

StrategyHands == UNION {StrategyHandsOf(n) : n \in 1 .. MaxHand}

\* seq without one copy of each card of taken
RECURSIVE WithoutCards(_, _)
WithoutCards(seq, taken) ==
    IF taken = << >> THEN seq
    ELSE LET card == Head(taken)
             at == CHOOSE i \in 1 .. Len(seq) :
                       /\ seq[i] = card
                       /\ \A j \in 1 .. (i - 1) : seq[j] # card
         IN  WithoutCards(RemoveAt(seq, at), Tail(taken))

Init_strategy ==
    \E hand \in StrategyHands, top \in StrategyTops, d \in {1, 0 - 1}, n \in {2, 3} :
        LET next == SeatAfter(1, d, 1)
            dealt == [p \in Players |->
                         IF p = 1 THEN hand
                         ELSE IF p = next THEN SubSeq(OtherHand(p), 1, n)
                         ELSE OtherHand(p)]
            onPile == Card(top.color, top.value)
        IN  /\ hands = dealt
            /\ topCard = top
            /\ discardPile = <<onPile>>
            /\ deck = WithoutCards(UnshuffledDeck,
                                   <<onPile>> \o dealt[0] \o dealt[1] \o dealt[2] \o dealt[3])
            /\ currentPlayer = 1
            /\ direction = d
            /\ pendingDraw = 0
            /\ unoAwaitingCall = FALSE
            /\ gameOver = FALSE
            /\ winner = 0 - 1
            /\ aiActionTimeout = "pending"
            /\ pickerDisplay = "none"
            /\ pickerWildValue = "null"
            /\ outstandingTimers = 1
            /\ steps = 0

Next_strategy == ComputerTimerFires

Spec_strategy == Init_strategy /\ [][Next_strategy]_vars

\* the positions of hand that hold a card of value v playable on top
PlayableOf(hand, top, v) ==
    {i \in 1 .. Len(hand) : hand[i].value = v /\ canPlay(hand[i], top)}

\* the positions of hand that hold a WildDrawFour
DrawFoursOf(hand) == {i \in 1 .. Len(hand) : hand[i].value = "W4"}

\* what findBestPlayableCard returns for player p in this state
BestIndex(p) == findBestPlayableCard(State, hands[p], topCard, p)

\* the seat that follows p holds at most two cards and p holds a WildDrawFour,
\* a playable DrawTwo or a playable Skip
BlockingApplies(p) ==
    /\ Len(hands[SeatAfter(p, direction, 1)]) <= 2
    /\ \/ DrawFoursOf(hands[p]) # {}
       \/ PlayableOf(hands[p], topCard, "D2") # {}
       \/ PlayableOf(hands[p], topCard, "S") # {}

\* C25: when the seat that follows the computer in the current direction
\* holds at most 2 cards, findBestPlayableCard returns the index of a
\* WildDrawFour if the hand holds one; otherwise of a playable DrawTwo if
\* there is one; otherwise of a playable Skip if there is one.
C25_BlockingRule ==
    \A p \in Players :
        Len(hands[SeatAfter(p, direction, 1)]) <= 2 =>
            IF DrawFoursOf(hands[p]) # {}
            THEN BestIndex(p) \in DrawFoursOf(hands[p])
            ELSE IF PlayableOf(hands[p], topCard, "D2") # {}
            THEN BestIndex(p) \in PlayableOf(hands[p], topCard, "D2")
            ELSE IF PlayableOf(hands[p], topCard, "S") # {}
            THEN BestIndex(p) \in PlayableOf(hands[p], topCard, "S")
            ELSE TRUE

\* computer 1 has put a red DrawTwo on the red 5 before a player of at most
\* two cards, and has kept a red Reverse
C25_Witness ==
    /\ steps = 1
    /\ discardPile = <<Card("R", "5"), Card("R", "D2")>>
    /\ pendingDraw = 2
    /\ Len(hands[currentPlayer]) <= 2
    /\ \E i \in 1 .. Len(hands[1]) : hands[1][i] = Card("R", "R")


\* the positions of hand that hold a numeral playable on top
PlayableNumerals(hand, top) ==
    {i \in 1 .. Len(hand) : IsNumber(hand[i].value) /\ canPlay(hand[i], top)}

\* C26: when the blocking rule selects no card, findBestPlayableCard returns
\* a playable Reverse if any; else a playable Skip or DrawTwo; else the
\* playable numeral of highest value; else a plain Wild; else a WildDrawFour.
C26_FallbackOrder ==
    \A p \in Players :
        LET hand == hands[p]
            best == BestIndex(p)
            actionCards == PlayableOf(hand, topCard, "S") \cup PlayableOf(hand, topCard, "D2")
            numerals == PlayableNumerals(hand, topCard)
        IN  ~BlockingApplies(p) =>
                IF PlayableOf(hand, topCard, "R") # {}
                THEN best \in PlayableOf(hand, topCard, "R")
                ELSE IF actionCards # {}
                THEN best \in actionCards
                ELSE IF numerals # {}
                THEN /\ best \in numerals
                     /\ \A j \in numerals :
                            NumericValue(hand[best].value) >= NumericValue(hand[j].value)
                ELSE IF PlayableOf(hand, topCard, "W") # {}
                THEN best \in PlayableOf(hand, topCard, "W")
                ELSE IF DrawFoursOf(hand) # {}
                THEN best \in DrawFoursOf(hand)
                ELSE TRUE

\* computer 1 has put the red 7 on the red 5 and has kept a red 3 and a Wild
C26_Witness ==
    /\ steps = 1
    /\ discardPile = <<Card("R", "5"), Card("R", "7")>>
    /\ \E i \in 1 .. Len(hands[1]) : hands[1][i] = Card("R", "3")
    /\ \E i \in 1 .. Len(hands[1]) : hands[1][i] = Card("BL", "W")

\* C39: findBestPlayableCard returns a legal move: -1 (here 0) exactly when no
\* card of the hand is playable on the top card, and otherwise the position of
\* a card of the hand that is playable on the top card, whatever the hand, the
\* top card and the size of the next seat's hand.
C39_BestCardIsLegal ==
    \A p \in Players \ {0} :
        LET i == BestIndex(p)
        IN  /\ i = 0 <=> \A j \in 1 .. Len(hands[p]) : ~canPlay(hands[p][j], topCard)
            /\ i # 0 => /\ i \in 1 .. Len(hands[p])
                        /\ canPlay(hands[p][i], topCard)

\* computer 1 holds a card that is not playable before the one chosen, and
\* computer 2 holds nothing playable: the answer for it is -1
C39_Witness ==
    /\ BestIndex(1) > 1
    /\ \E j \in 1 .. (BestIndex(1) - 1) : ~canPlay(hands[1][j], topCard)
    /\ Len(hands[2]) > 0
    /\ BestIndex(2) = 0


\* ------------------------------------------------------------------------
\* createDeck's Fisher-Yates pass, iteration by iteration: `deck` is the array
\* createDeck is building, `steps` the number of iterations done
\* ------------------------------------------------------------------------

MaxSwaps == 4

\* deck[i] = deck[j] alone: the card at i is overwritten
SwapCards_Overwrite(seq, i, j) == [seq EXCEPT ![i] = seq[j]]

\* [deck[i], deck[j]] = [deck[j], deck[i]], for positions counted from 1
SwapCards(seq, i, j) == [seq EXCEPT ![i] = seq[j], ![j] = seq[i]]

\* values of Math.floor(Math.random() * (i + 1)) that are followed up
SwapChoices(i) == {0, i \div 2, i - 1, i}

Init_createDeck ==
    /\ deck = UnshuffledDeck
    /\ discardPile = << >>
    /\ hands = [p \in Players |-> << >>]
    /\ topCard = NoCard
    /\ currentPlayer = 0
    /\ direction = 1
    /\ pendingDraw = 0
    /\ unoAwaitingCall = FALSE
    /\ gameOver = TRUE
    /\ winner = 0 - 1
    /\ aiActionTimeout = "null"
    /\ pickerDisplay = "none"
    /\ pickerWildValue = "null"
    /\ outstandingTimers = 0
    /\ steps = 0

\* one iteration of the loop of lines 59-62, for i = deck.length - 1 - steps
FisherYatesStep ==
    /\ steps < MaxSwaps
    /\ LET i == Len(deck) - 1 - steps
       IN  \E j \in SwapChoices(i) : deck' = SwapCards(deck, i + 1, j + 1)
    /\ steps' = steps + 1
    /\ UNCHANGED <<discardPile, hands, topCard, currentPlayer, direction, pendingDraw,
                   unoAwaitingCall, gameOver, winner, aiActionTimeout,
                   pickerDisplay, pickerWildValue, outstandingTimers>>

Next_createDeck == FisherYatesStep

Spec_createDeck == Init_createDeck /\ [][Next_createDeck]_vars

\* how many cards of seq have one of the values vs
CardsOfValues(seq, vs) == Cardinality({i \in 1 .. Len(seq) : seq[i].value \in vs})

\* C30: the deck of createDeck has exactly 108 cards: for each of R, G, B, Y
\* one 0 and two of each of 1..9 (76 numerals), two of each of Skip, Reverse
\* and DrawTwo (24 action cards), four Wild and four WildDrawFour (8 wilds);
\* the shuffle changes the order only, never the cards.
C30_DeckOf108 ==
    /\ Len(deck) = 108
    /\ \A k \in 1 .. Len(colors) :
          /\ Occurrences(deck, Card(colors[k], "0")) = 1
          /\ \A d \in 2 .. Len(Digits) : Occurrences(deck, Card(colors[k], Digits[d])) = 2
          /\ \A a \in {"S", "R", "D2"} : Occurrences(deck, Card(colors[k], a)) = 2
    /\ Occurrences(deck, Card("BL", "W")) = 4
    /\ Occurrences(deck, Card("BL", "W4")) = 4
    /\ CardsOfValues(deck, {Digits[d] : d \in 1 .. Len(Digits)}) = 76
    /\ CardsOfValues(deck, {"S", "R", "D2"}) = 24
    /\ CardsOfValues(deck, {"W", "W4"}) = 8

\* the shuffle has moved cards: the last two positions hold other cards than
\* createDeck pushed there
C30_Witness ==
    /\ steps >= 2
    /\ deck[Len(deck)] # UnshuffledDeck[Len(deck)]
    /\ deck[Len(deck) - 1] # UnshuffledDeck[Len(deck) - 1]

\* ========================================================================
\* The 4-player engine of src/uno/game.js (first variant, lines 1-692).  Its
\* text is that of src/unnamed/part_001 lines 1-790 except for handleUnoCheck,
\* handlePlayerAction, handleDrawAction and handleComputerTurn (and, through
\* handleUnoCheck, setWildColor); the other operators are shared.
\* ========================================================================

\* handleUnoCheck: the else belongs to the test of the hand size
handleUnoCheck_gamejs(s, playerIndex) ==
    IF Len(s.hands[playerIndex]) = 1
    THEN IF playerIndex = 0 THEN [s EXCEPT !.unoAwaitingCall = TRUE] ELSE s
    ELSE [s EXCEPT !.unoAwaitingCall = FALSE]

setWildColor_gamejs(s, chosenColor, wildValue) ==
    LET playerIndex == s.currentPlayer
        s1 == IF playerIndex = 0 THEN [s EXCEPT !.pickerDisplay = "none"] ELSE s
        s2 == [s1 EXCEPT !.topCard = [color |-> s1.topCard.color, value |-> wildValue,
                                      nextColor |-> chosenColor]]
        result == applyCardEffect(s2, s2.topCard, playerIndex)
        s3 == [result.s EXCEPT !.currentPlayer = result.nextPlayer]
        s4 == handleUnoCheck_gamejs(checkWin(s3, playerIndex), playerIndex)
    IN  renderGame(ClearAiTimeout(s4))

showColorPicker_gamejs(s, playerIndex, wildValue) ==
    IF playerIndex = 0
    THEN [s EXCEPT !.pickerDisplay = "flex", !.pickerWildValue = wildValue]
    ELSE setWildColor_gamejs(s, BestColor(s.hands[playerIndex]), wildValue)

\* handleDrawAction: the penalty loop is that of part_001; the regular draw
\* pushes each card onto the hand as it is drawn and breaks on the first
\* playable one (a human leaves the loop after one card), which leaves the
\* state RegularDrawLoop leaves; only a human's turn is passed on
handleDrawAction_gamejs(s, playerIndex, k) ==
    LET isHuman == playerIndex = 0
    IN  IF s.pendingDraw > 0
        THEN LET s1 == DrawLoop(s, playerIndex, s.pendingDraw, k)
                 nextPlayer == calculateNextPlayer(playerIndex, s1.direction, 0)
             IN  [s |-> [s1 EXCEPT !.pendingDraw = 0, !.currentPlayer = nextPlayer],
                  playableFound |-> FALSE]
        ELSE LET d == RegularDrawLoop(s, << >>, isHuman, k)
                 s1 == [d.s EXCEPT !.hands[playerIndex] = @ \o d.drawnCards]
                 nextPlayer == calculateNextPlayer(playerIndex, s1.direction, 0)
             IN  [s |-> IF isHuman /\ ~d.playableFound
                        THEN [s1 EXCEPT !.currentPlayer = nextPlayer]
                        ELSE s1,
                  playableFound |-> d.playableFound]

\* handlePlayerAction; cardIndex 0 is the draw request (null)
handlePlayerAction_gamejs(s, cardIndex, k) ==
    IF s.gameOver \/ (s.currentPlayer # 0 /\ cardIndex = 0) THEN s
    ELSE IF cardIndex = 0
    THEN renderGame(IF s.currentPlayer = 0 THEN handleDrawAction_gamejs(s, 0, k).s ELSE s)
    ELSE
    LET cardPlayed == s.hands[0][cardIndex]
        isPlayerTurn == s.currentPlayer = 0
        isJumpIn == ~isPlayerTurn /\ isExactMatch(cardPlayed, s.topCard)
    IN  IF ~isPlayerTurn /\ ~isJumpIn THEN s
        ELSE IF ~canPlay(cardPlayed, s.topCard) /\ ~isJumpIn THEN s
        ELSE
        LET s1 == [s EXCEPT !.hands[0] = RemoveAt(@, cardIndex),
                            !.discardPile = Append(@, cardPlayed),
                            !.topCard = cardPlayed]
            s2 == IF isPlayerTurn THEN [s1 EXCEPT !.unoAwaitingCall = FALSE] ELSE s1
            s3 == IF Len(s2.hands[0]) = 1 THEN [s2 EXCEPT !.unoAwaitingCall = TRUE] ELSE s2
            result == applyCardEffect(s3, cardPlayed, 0)
            s4 == IF cardPlayed.color = "BL"
                  THEN showColorPicker_gamejs(s3, 0, cardPlayed.value)
                  ELSE handleUnoCheck_gamejs(
                           checkWin([result.s EXCEPT !.currentPlayer =
                                        IF isJumpIn THEN 0 ELSE result.nextPlayer], 0), 0)
        IN  renderGame(ClearAiTimeout(s4))

\* a computer puts cardPlayed, already taken from its hand, on the pile and
\* resolves it (lines 586-602 and 612-627)
ComputerPlays_gamejs(s, playerIndex, cardPlayed) ==
    LET s1 == [s EXCEPT !.discardPile = Append(@, cardPlayed), !.topCard = cardPlayed]
    IN  IF cardPlayed.color = "BL"
        THEN showColorPicker_gamejs(s1, playerIndex, cardPlayed.value)
        ELSE LET result == applyCardEffect(s1, cardPlayed, playerIndex)
                 s2 == [result.s EXCEPT !.currentPlayer = result.nextPlayer]
             IN  handleUnoCheck_gamejs(checkWin(s2, playerIndex), playerIndex)

\* the UNO penalty check of lines 565-571: no reshuffle, two pops at most
UnoPenaltyCheck_gamejs(s, playerIndex) ==
    IF s.unoAwaitingCall /\ playerIndex = calculateNextPlayer(0, s.direction, 0)
    THEN LET n == IF Len(s.deck) < 2 THEN Len(s.deck) ELSE 2
         IN  [s EXCEPT !.hands[0] = @ \o Reverse(SubSeq(s.deck, Len(s.deck) - n + 1, Len(s.deck))),
                       !.deck = SubSeq(s.deck, 1, Len(s.deck) - n),
                       !.unoAwaitingCall = FALSE]
    ELSE s

\* handleComputerTurn, run by the timer
handleComputerTurn_gamejs(s, k) ==
    IF s.currentPlayer = 0 \/ s.gameOver \/ s.pickerDisplay # "none"
    THEN ClearAiTimeout(s)
    ELSE
    LET playerIndex == s.currentPlayer
        top == s.topCard
        s1 == UnoPenaltyCheck_gamejs(s, playerIndex)
        computerHand == s1.hands[playerIndex]
        playableIndex == FirstIndex({i \in 1 .. Len(computerHand) :
                                        canPlay(computerHand[i], top)})
    IN  IF s1.pendingDraw > 0
        THEN renderGame(ClearAiTimeout(handleDrawAction_gamejs(s1, playerIndex, k).s))
        ELSE IF playableIndex # 0
        THEN renderGame(ClearAiTimeout(
                 ComputerPlays_gamejs([s1 EXCEPT !.hands[playerIndex] = RemoveAt(@, playableIndex)],
                                      playerIndex, computerHand[playableIndex])))
        ELSE LET d == handleDrawAction_gamejs(s1, playerIndex, k)
                 hand == d.s.hands[playerIndex]
             IN  IF d.playableFound
                 THEN renderGame(ClearAiTimeout(
                          ComputerPlays_gamejs([d.s EXCEPT !.hands[playerIndex] = Front(hand)],
                                               playerIndex, Last(hand))))
                 ELSE renderGame(ClearAiTimeout(d.s))

\* the draw button: handlePlayerAction(null)
PlayerDraws_gamejs ==
    /\ steps < MaxSteps
    /\ \E k \in 0 .. MaxRot : Becomes(handlePlayerAction_gamejs(State, 0, k))

\* a click on card i of player 0's hand: handlePlayerAction(i)
PlayerClicksCard_gamejs ==
    /\ steps < MaxSteps
    /\ \E i \in 1 .. Len(hands[0]) : Becomes(handlePlayerAction_gamejs(State, i, 0))

\* a click on a button of the color picker while it is shown
PlayerPicksColor_gamejs ==
    /\ steps < MaxSteps
    /\ pickerDisplay # "none"
    /\ \E k \in 1 .. Len(colors) : Becomes(setWildColor_gamejs(State, colors[k], pickerWildValue))

\* the timer set by renderGame fires and runs handleComputerTurn
ComputerTimerFires_gamejs ==
    /\ steps < MaxSteps
    /\ outstandingTimers > 0
    /\ \E k \in 0 .. MaxRot :
          Becomes(handleComputerTurn_gamejs(TimerFires(State), k))

\* initGame, dealInitialCards, startGame, declareUno and the DOMContentLoaded
\* listener have the text of part_001
Next_gamejs ==
    \/ StartGame
    \/ PlayerDraws_gamejs
    \/ PlayerClicksCard_gamejs
    \/ PlayerPicksColor_gamejs
    \/ PlayerDeclaresUno
    \/ ComputerTimerFires_gamejs

Spec_gamejs == Init /\ [][Next_gamejs]_vars

\* ------------------------------------------------------------------------
\* Properties of the 4-player engine of src/uno/game.js (Spec_gamejs)
\* ------------------------------------------------------------------------

\* the current player must free-draw and nothing can be drawn: no penalty is
\* pending, no card of its hand is playable, the deck is empty and the discard
\* pile holds at most one card
ExhaustedFreeDraw ==
    /\ Started /\ ~gameOver
    /\ pickerDisplay = "none"
    /\ pendingDraw = 0
    /\ \A i \in 1 .. Len(hands[currentPlayer]) : ~canPlay(hands[currentPlayer][i], topCard)
    /\ Drawable = 0

\* C20: when the current player must free-draw but the deck is empty and the
\* discard pile holds at most one card, its turn (the draw request of player
\* 0, handleComputerTurn for a computer) draws no card and passes the turn to
\* the next seat, so that the game does not stay on the same computer turn
\* after turn with nothing changing.
C20_ExhaustedDrawPassesTurn ==
    ExhaustedFreeDraw =>
        \A k \in 0 .. MaxRot :
            LET after == IF currentPlayer = 0
                         THEN handlePlayerAction_gamejs(State, 0, k)
                         ELSE handleComputerTurn_gamejs(
                                  TimerFires(State), k)
            IN  /\ after.hands = hands
                /\ after.deck = deck
                /\ after.currentPlayer = SeatAfter(currentPlayer, direction, 1)

\* handleComputerTurn of the 4-player engine of game.js gets past its first
\* return and applies the UNO penalty (lines 565-571) in this step
UnoPenaltyApplied_gamejs ==
    /\ unoAwaitingCall
    /\ currentPlayer # 0 /\ ~gameOver /\ pickerDisplay = "none"
    /\ currentPlayer = calculateNextPlayer(0, direction, 0)
    /\ ComputerTimerFires_gamejs

\* C37: whenever handleComputerTurn of the 4-player engine of game.js applies
\* the UNO penalty, player 0 holds exactly one card at that moment: player 0
\* is never penalized while holding two or more cards.
C37_PenaltyOnlyAtOneCard ==
    [][UnoPenaltyApplied_gamejs => Len(hands[0]) = 1]_vars

\* ========================================================================
\* The 2-player engine of src/uno/game.js (second variant, lines 694-1386):
\* player 0 (human) against player 1 (computer).  It is a machine of its own
\* over the same variables: hands has the two seats 0 and 1, topCard is the
\* very object that lies on top of the discard pile (so a color assigned to it
\* is assigned to that card), and aiActionTimeout counts the computerMove
\* timers that renderGame has started and that have not fired yet (they are
\* never cancelled).
\* ========================================================================

\* bound of the exploration of the 2-player engine: handler executions
MaxSteps2p == 9

Seats2p == {0, 1}

\* (x % numPlayers), then `if (nextPlayer < 0) nextPlayer += numPlayers`
Wrap2p(x) == LET n == JSRem(x, 2) IN IF n < 0 THEN n + 2 ELSE n

\* an element pushed from an empty deck: deck.pop() of [] is undefined
UndefinedCard == [color |-> "undefined", value |-> "undefined", nextColor |-> "none"]

canPlay2p(card, top) ==
    IF card.color = "BL" THEN TRUE
    ELSE IF card.color = top.color THEN TRUE
    ELSE IF card.value = top.value THEN TRUE
    ELSE top.color = "BL" /\ top.nextColor = card.color

\* applyCardEffect of the 2-player engine with the Reverse branch of a game
\* of more than two players (lines 908-911 left out)
applyCardEffect2p_PlainReverse(s, card, playerIndex) ==
    LET first == Wrap2p(playerIndex + s.direction)
    IN  CASE card.value = "S" ->
               [s |-> s, nextPlayer |-> Wrap2p(first + s.direction)]
          [] card.value = "R" ->
               [s |-> [s EXCEPT !.direction = s.direction * (0 - 1)], nextPlayer |-> first]
          [] card.value = "D2" ->
               [s |-> [s EXCEPT !.pendingDraw = s.pendingDraw + 2], nextPlayer |-> first]
          [] card.value = "W4" ->
               [s |-> [s EXCEPT !.pendingDraw = s.pendingDraw + 4], nextPlayer |-> first]
          [] OTHER ->
               [s |-> s, nextPlayer |-> first]

\* applyCardEffect(card, playerIndex, deck, hands) with hands.length = 2
applyCardEffect2p(s, card, playerIndex) ==
    LET first == Wrap2p(playerIndex + s.direction)
    IN  CASE card.value = "S" ->
               [s |-> s, nextPlayer |-> Wrap2p(first + s.direction)]
          [] card.value = "R" ->
               LET s1 == [s EXCEPT !.direction = s.direction * (0 - 1)]
               IN  [s |-> s1, nextPlayer |-> Wrap2p(first + s1.direction)]
          [] card.value = "D2" ->
               [s |-> [s EXCEPT !.pendingDraw = s.pendingDraw + 2], nextPlayer |-> first]
          [] card.value = "W4" ->
               [s |-> [s EXCEPT !.pendingDraw = s.pendingDraw + 4], nextPlayer |-> first]
          [] OTHER ->
               [s |-> s, nextPlayer |-> first]

checkWin2p(s, playerIndex) ==
    IF Len(s.hands[playerIndex]) = 0
    THEN [s EXCEPT !.gameOver = TRUE, !.winner = playerIndex]
    ELSE s

\* handleUnoCheck: the else of line 1351 belongs to the test of the hand size
handleUnoCheck2p(s, playerIndex) ==
    IF Len(s.hands[playerIndex]) = 1
    THEN IF playerIndex = 0 THEN [s EXCEPT !.unoAwaitingCall = TRUE] ELSE s
    ELSE [s EXCEPT !.unoAwaitingCall = FALSE]

\* renderGame: of its effects only the computerMove timer it starts (lines
\* 1005-1011) is state the engine reads back
renderGame2p(s) ==
    IF ~s.gameOver /\ s.currentPlayer = 1 /\ s.pickerDisplay = "none"
    THEN [s EXCEPT !.aiActionTimeout = @ + 1]
    ELSE s

\* setWildColor(color): the color goes onto the card on top of the pile, and
\* the effect, the win check and the UNO check are those of player 0
setWildColor2p(s, color) ==
    LET colored == [s.topCard EXCEPT !.nextColor = color]
        s1 == [s EXCEPT !.pickerDisplay = "none",
                        !.topCard = colored,
                        !.discardPile = Front(s.discardPile) \o <<colored>>]
        result == applyCardEffect2p(s1, s1.topCard, 0)
        s2 == [result.s EXCEPT !.currentPlayer = result.nextPlayer]
    IN  renderGame2p(handleUnoCheck2p(checkWin2p(s2, 0), 0))

\* showColorPicker(playerIndex, wildValue); random is the color that
\* Math.random() selects as the default
showColorPicker2p(s, playerIndex, random) ==
    IF playerIndex = 0
    THEN [s EXCEPT !.pickerDisplay = "flex"]
    ELSE setWildColor2p(s, BestColorFrom(s.hands[playerIndex], 1, random, 0 - 1))

reshuffleDeck2p(s, k) ==
    IF Len(s.discardPile) <= 1 THEN [s |-> s, ok |-> FALSE]
    ELSE [s  |-> [s EXCEPT !.deck = Shuffle(Front(s.discardPile), k),
                           !.discardPile = <<Last(s.discardPile)>>],
          ok |-> TRUE]

\* the penalty loop of handleDrawAction (lines 1116-1120), n draws left
RECURSIVE PenaltyLoop2p(_, _, _, _)
PenaltyLoop2p(s, playerIndex, n, k) ==
    IF n = 0 THEN s
    ELSE LET s1 == IF Len(s.deck) = 0 THEN reshuffleDeck2p(s, k).s ELSE s
             s2 == IF Len(s1.deck) = 0
                   THEN [s1 EXCEPT !.hands[playerIndex] = Append(@, UndefinedCard)]
                   ELSE [s1 EXCEPT !.hands[playerIndex] = Append(@, Last(s1.deck)),
                                   !.deck = Front(s1.deck)]
         IN  PenaltyLoop2p(s2, playerIndex, n - 1, k)

\* the do-while of lines 1136-1151 run on the present deck until it breaks on
\* a playable card or the deck is empty
DrawDeckTillMatch2p(s, playerIndex) ==
    LET n    == Len(s.deck)
        hits == {i \in 1 .. n : canPlay2p(s.deck[i], s.topCard)}
    IN  IF hits = {}
        THEN [s |-> [s EXCEPT !.hands[playerIndex] = @ \o Reverse(s.deck),
                              !.deck = << >>],
              playableFound |-> FALSE]
        ELSE LET j == CHOOSE i \in hits : \A h \in hits : h <= i
             IN  [s |-> [s EXCEPT !.hands[playerIndex] = @ \o Reverse(SubSeq(s.deck, j, n)),
                                  !.deck = SubSeq(s.deck, 1, j - 1)],
                  playableFound |-> TRUE]

\* the whole do-while: a reshuffle leaves one card on the pile, so that the
\* loop reshuffles at most once after it has drawn a card
DrawTillMatch2p(s, playerIndex, k) ==
    LET r1 == IF Len(s.deck) = 0 THEN reshuffleDeck2p(s, k) ELSE [s |-> s, ok |-> TRUE]
    IN  IF ~r1.ok THEN [s |-> s, playableFound |-> FALSE]
        ELSE LET d1 == DrawDeckTillMatch2p(r1.s, playerIndex)
             IN  IF d1.playableFound THEN d1
                 ELSE LET r2 == reshuffleDeck2p(d1.s, k)
                      IN  IF ~r2.ok THEN d1
                          ELSE DrawDeckTillMatch2p(r2.s, playerIndex)

\* handleDrawAction(playerIndex) of the 2-player engine
handleDrawAction2p(s, playerIndex, k) ==
    IF s.pendingDraw > 0
    THEN LET s1 == PenaltyLoop2p(s, playerIndex, s.pendingDraw, k)
         IN  [s |-> [s1 EXCEPT !.pendingDraw = 0,
                               !.currentPlayer = Wrap2p(playerIndex + s.direction)],
              playableFound |-> FALSE]
    ELSE LET d == DrawTillMatch2p(s, playerIndex, k)
         IN  IF d.playableFound THEN d
             ELSE [s |-> [d.s EXCEPT !.currentPlayer = Wrap2p(playerIndex + s.direction)],
                   playableFound |-> FALSE]

\* steps 2 and 3 of a play: the card leaves the hand, lies on the pile and is
\* the top card, without the nextColor it may carry from an earlier play
PutDown2p(s, playerIndex, index) ==
    LET card == [s.hands[playerIndex][index] EXCEPT !.nextColor = "none"]
    IN  [s EXCEPT !.hands[playerIndex] = RemoveAt(@, index),
                  !.discardPile = Append(@, card),
                  !.topCard = card]

\* handlePlayerAction(cardIndex); cardIndex 0 stands for null (the draw
\* button), the cards of the hand are numbered from 1
handlePlayerAction2p(s, cardIndex, k) ==
    IF s.gameOver THEN s
    ELSE IF cardIndex = 0
    THEN renderGame2p(IF s.currentPlayer = 0 THEN handleDrawAction2p(s, 0, k).s ELSE s)
    ELSE LET cardPlayed == s.hands[0][cardIndex]
             isJumpIn   == s.currentPlayer = 1 /\ isExactMatch(cardPlayed, s.topCard)
         IN  IF s.currentPlayer # 0 /\ ~isJumpIn THEN s
             ELSE IF ~canPlay2p(cardPlayed, s.topCard) /\ ~isJumpIn THEN s
             ELSE LET s1 == PutDown2p(s, 0, cardIndex)
                  IN  IF cardPlayed.color = "BL"
                      THEN renderGame2p(showColorPicker2p(s1, 0, "R"))
                      ELSE LET result == applyCardEffect2p(s1, s1.topCard, 0)
                               s2 == [result.s EXCEPT !.currentPlayer = result.nextPlayer]
                           IN  renderGame2p(handleUnoCheck2p(checkWin2p(s2, 0), 0))

\* the first playable card of the computer's hand (0: none)
FirstPlayable2p(s) ==
    FirstIndex({i \in 1 .. Len(s.hands[1]) : canPlay2p(s.hands[1][i], s.topCard)})

\* the computer puts down the card at index and resolves it (lines 1265-1279
\* and 1300-1314)
ComputerPlays2p(s, index, random) ==
    LET s1 == PutDown2p(s, 1, index)
    IN  IF s1.topCard.color = "BL"
        THEN showColorPicker2p(s1, 1, random)
        ELSE LET result == applyCardEffect2p(s1, s1.topCard, 1)
                 s2 == [result.s EXCEPT !.currentPlayer = result.nextPlayer]
             IN  handleUnoCheck2p(checkWin2p(s2, 1), 1)

\* computerMove(), started by a timer of renderGame
computerMove2p(s, random, k) ==
    IF s.gameOver \/ s.currentPlayer # 1 \/ s.pickerDisplay # "none" THEN s
    ELSE LET playableIndex == FirstPlayable2p(s)
         IN  IF s.pendingDraw > 0
             THEN renderGame2p(handleDrawAction2p(s, 1, k).s)
             ELSE IF playableIndex # 0
             THEN renderGame2p(ComputerPlays2p(s, playableIndex, random))
             ELSE LET d == handleDrawAction2p(s, 1, k)
                      newPlayableIndex == FirstPlayable2p(d.s)
                  IN  IF d.playableFound /\ d.s.currentPlayer = 1 /\ newPlayableIndex # 0
                      THEN renderGame2p(ComputerPlays2p(d.s, newPlayableIndex, random))
                      ELSE renderGame2p(d.s)

\* declareUno()
declareUno2p(s) ==
    IF Len(s.hands[0]) = 1 THEN [s EXCEPT !.unoAwaitingCall = FALSE] ELSE s

initGame2p(s, shuffledDeck) ==
    [s EXCEPT !.deck = shuffledDeck,
              !.discardPile = << >>,
              !.hands = [p \in Seats2p |-> << >>],
              !.topCard = NoCard,
              !.currentPlayer = 0,
              !.direction = 1,
              !.pendingDraw = 0,
              !.unoAwaitingCall = FALSE,
              !.gameOver = FALSE,
              !.winner = 0 - 1]

\* a card the do-while of dealInitialCards flips again
NoStartCard2p(card) == card.color = "BL" \/ card.value \in {"D2", "S", "R"}

\* dealInitialCards on a deck of createDeck: seven cards each, alternately,
\* then cards are popped until one may start the pile (the deck holds such a
\* card, so the loop does not come to its reshuffle)
dealInitialCards2p(s) ==
    LET n     == Len(s.deck)
        dealt == 2 * HandSize
        rest  == SubSeq(s.deck, 1, n - dealt)
        good  == {i \in 1 .. Len(rest) : ~NoStartCard2p(rest[i])}
        j     == CHOOSE i \in good : \A g \in good : g <= i
    IN  [s EXCEPT !.hands = [p \in Seats2p |->
                               [c \in 1 .. HandSize |-> s.deck[n - (2 * (c - 1) + p)]]],
                  !.deck = SubSeq(rest, 1, j - 1),
                  !.discardPile = <<rest[j]>>,
                  !.topCard = rest[j]]

startGame2p(s, shuffledDeck) ==
    renderGame2p([dealInitialCards2p(initGame2p(s, shuffledDeck)) EXCEPT !.gameOver = FALSE])

\* the order in which dealInitialCards pops the cards of the hands h
DealOrder2p(h) ==
    [n \in 1 .. (2 * HandSize) |-> h[(n - 1) % 2][((n - 1) \div 2) + 1]]

\* the permutation of createDeck's cards that deals the hands h and then pops
\* the cards of `after`
Stacked2p(h, after) ==
    LET pops == DealOrder2p(h) \o after
    IN  RemoveEach(UnshuffledDeck, pops) \o Reverse(pops)

\* the computer's first playable card is a Wild Draw Four
Shuffle2pWild ==
    Stacked2p([p \in Seats2p |->
                 IF p = 0
                 THEN <<Card("R", "1"), Card("R", "R"), Card("BL", "W"), Card("G", "4"),
                        Card("G", "5"), Card("B", "6"), Card("Y", "7")>>
                 ELSE <<Card("BL", "W4"), Card("G", "1"), Card("G", "2"), Card("G", "3"),
                        Card("G", "6"), Card("G", "7"), Card("G", "8")>>],
              <<Card("R", "0")>>)

\* the computer holds Skips and Reverses that keep the turn, and a Wild as
\* the last of its cards
Shuffle2pChain ==
    Stacked2p([p \in Seats2p |->
                 IF p = 0
                 THEN <<Card("R", "1"), Card("B", "2"), Card("B", "3"), Card("B", "4"),
                        Card("B", "5"), Card("B", "6"), Card("B", "7")>>
                 ELSE <<Card("R", "S"), Card("R", "S"), Card("R", "R"), Card("R", "R"),
                        Card("G", "R"), Card("G", "R"), Card("BL", "W")>>],
              <<Card("R", "0")>>)

\* player 0 holds Skips and Reverses that keep the turn, down to the last card
Shuffle2pHuman ==
    Stacked2p([p \in Seats2p |->
                 IF p = 0
                 THEN <<Card("Y", "S"), Card("Y", "S"), Card("Y", "R"), Card("Y", "R"),
                        Card("B", "R"), Card("B", "R"), Card("B", "1")>>
                 ELSE <<Card("G", "1"), Card("G", "2"), Card("G", "3"), Card("G", "4"),
                        Card("G", "5"), Card("G", "6"), Card("G", "7")>>],
              <<Card("Y", "0")>>)

\* every other wild card is flipped, and so dropped, before the start card (a
\* red 0): player 0 holds two Wilds and the deck holds none
Shuffle2pNoWild ==
    Stacked2p([p \in Seats2p |->
                 IF p = 0
                 THEN <<Card("BL", "W"), Card("BL", "W"), Card("R", "1"), Card("R", "2"),
                        Card("R", "3"), Card("R", "4"), Card("R", "5")>>
                 ELSE <<Card("R", "6"), Card("G", "6"), Card("B", "6"), Card("Y", "6"),
                        Card("R", "7"), Card("G", "7"), Card("B", "7")>>],
              <<Card("BL", "W"), Card("BL", "W"), Card("BL", "W4"), Card("BL", "W4"),
                Card("BL", "W4"), Card("BL", "W4"), Card("R", "0")>>)

Shuffles2p == {Shuffle2pWild, Shuffle2pChain, Shuffle2pHuman}

\* the DOMContentLoaded listener of the 2-player engine
Init2p ==
    /\ deck = << >>
    /\ discardPile = << >>
    /\ hands = [p \in Seats2p |-> << >>]
    /\ topCard = NoCard
    /\ currentPlayer = 0
    /\ direction = 1
    /\ pendingDraw = 0
    /\ unoAwaitingCall = FALSE
    /\ gameOver = TRUE
    /\ winner = 0 - 1
    /\ aiActionTimeout = 0
    /\ pickerDisplay = "none"
    /\ pickerWildValue = "null"
    /\ outstandingTimers = 0
    /\ steps = 0

\* the start button, shown by renderGame only while the game is over
StartGame2p ==
    /\ steps < MaxSteps2p
    /\ gameOver
    /\ \E d \in Shuffles2p : Becomes(startGame2p(State, d))

\* the draw button, enabled by renderGame on player 0's turn without a penalty
PlayerDraws2p ==
    /\ steps < MaxSteps2p
    /\ ~gameOver /\ currentPlayer = 0 /\ pendingDraw = 0
    /\ \E k \in 0 .. MaxRot : Becomes(handlePlayerAction2p(State, 0, k))

\* a click on a card of player 0's hand
PlayerClicksCard2p ==
    /\ steps < MaxSteps2p
    /\ \E i \in 1 .. Len(hands[0]) : Becomes(handlePlayerAction2p(State, i, 0))

\* a button of the color picker, which exists only while the picker is shown
PlayerPicksColor2p ==
    /\ steps < MaxSteps2p
    /\ pickerDisplay = "flex"
    /\ \E c \in {colors[i] : i \in 1 .. Len(colors)} : Becomes(setWildColor2p(State, c))

PlayerDeclaresUno2p ==
    /\ steps < MaxSteps2p
    /\ Becomes(declareUno2p(State))

\* one of the timers started by renderGame runs computerMove
ComputerTimerFires2p ==
    /\ steps < MaxSteps2p
    /\ aiActionTimeout > 0
    /\ \E random \in {colors[i] : i \in 1 .. Len(colors)}, k \in 0 .. MaxRot :
          Becomes(computerMove2p([State EXCEPT !.aiActionTimeout = @ - 1], random, k))

Next2p ==
    \/ StartGame2p
    \/ PlayerDraws2p
    \/ PlayerClicksCard2p
    \/ PlayerPicksColor2p
    \/ PlayerDeclaresUno2p
    \/ ComputerTimerFires2p

Spec2p == Init2p /\ [][Next2p]_vars

\* the same engine, started from the deck that holds no wild card
StartGame2p_NoWild ==
    /\ steps < MaxSteps2p
    /\ gameOver
    /\ Becomes(startGame2p(State, Shuffle2pNoWild))

Next2p_NoWild ==
    \/ StartGame2p_NoWild
    \/ PlayerDraws2p
    \/ PlayerClicksCard2p
    \/ PlayerPicksColor2p
    \/ PlayerDeclaresUno2p
    \/ ComputerTimerFires2p

Spec2p_NoWild == Init2p /\ [][Next2p_NoWild]_vars

\* ------------------------------------------------------------------------
\* Properties of the 2-player engine (specification Spec2p)
\* ------------------------------------------------------------------------

ColorSet == {colors[i] : i \in 1 .. Len(colors)}

\* C14: in the 2-player engine, for each player p of {0, 1} and each
\* direction the game takes, applyCardEffect returns for a Reverse the same
\* next player as for a Skip, and that player is p itself.
C14_ReverseActsAsSkip2p ==
    \A p \in Seats2p : \A c \in ColorSet :
        /\ direction \in {1, 0 - 1}
        /\ applyCardEffect2p(State, Card(c, "R"), p).nextPlayer = p
        /\ applyCardEffect2p(State, Card(c, "R"), p).nextPlayer
             = applyCardEffect2p(State, Card(c, "S"), p).nextPlayer

\* player 0 has played a Reverse from a full hand: the direction is turned
\* and the turn is player 0's again
C14_Witness ==
    /\ ~gameOver /\ DOMAIN hands = Seats2p
    /\ topCard.value = "R" /\ direction = 0 - 1 /\ currentPlayer = 0
    /\ Len(hands[0]) = HandSize - 1 /\ Len(discardPile) = 2

\* the computer's timer puts a wild card from the computer's hand on the pile
ComputerPlaysWild2p ==
    /\ ComputerTimerFires2p
    /\ ~gameOver
    /\ Len(discardPile') = Len(discardPile) + 1
    /\ Front(discardPile') = discardPile
    /\ Last(discardPile').color = "BL"

\* C15: in the 2-player engine a Wild or Wild Draw Four played by the computer
\* is resolved as played by player 1: the turn passes to player 0, who owes
\* the four cards of a Wild Draw Four, and if the wild was the computer's
\* last card the game is over with winner 1.
C15_ComputerWildResolvedForComputer2p ==
    [][ComputerPlaysWild2p =>
          IF Len(hands'[1]) = 0
          THEN gameOver' /\ winner' = 1
          ELSE /\ currentPlayer' = 0
               /\ Last(discardPile').value = "W4" => pendingDraw' = pendingDraw + 4]_vars

\* the color held most often in hand, the earliest of colors among equals,
\* and R for a hand without a colored card
MostHeldColor(hand) ==
    IF \A k \in 1 .. Len(colors) : ColorCount(hand, colors[k]) = 0 THEN "R"
    ELSE colors[CHOOSE k \in 1 .. Len(colors) :
                    /\ \A j \in 1 .. Len(colors) :
                           ColorCount(hand, colors[j]) <= ColorCount(hand, colors[k])
                    /\ \A j \in 1 .. (k - 1) :
                           ColorCount(hand, colors[j]) < ColorCount(hand, colors[k])]

Unassigned(cards) == \A i \in 1 .. Len(cards) : cards[i].nextColor = "none"

\* C32: in the 2-player engine of src/uno/game.js no card in the deck or in a
\* hand carries an assigned color (nextColor), wild cards that came back to
\* the deck through a reshuffle of the discard pile included.
C32_NoAssignedColorOffPile ==
    /\ Unassigned(deck)
    /\ \A p \in Seats2p : Unassigned(hands[p])

\* ========================================================================
\* The promise-based 2-player flow of src/unnamed/part_000.  hands is indexed
\* by Seats2p, aiActionTimeout counts the timers started with
\* setTimeout(handleComputerTurn, 1000) that have not fired yet, and
\* pickerWildValue is the value of the wild card whose handlePlayerAction is
\* suspended at `await handleWildChoice(...)` ("null": none is suspended).
\* direction, pendingDraw, unoAwaitingCall and winner are not used by this
\* code.  renderGame writes to the page only.
\* ========================================================================

MaxStepsUi == 6

isValidPlay(cardToPlay, top) ==
    IF cardToPlay.color = "BL" THEN TRUE
    ELSE cardToPlay.color = top.color \/ cardToPlay.value = top.value

\* Object.keys(colorCounts): the colors of hand other than BL, in the order in
\* which they first occur, from position i on
RECURSIVE ColorKeysFrom(_, _)
ColorKeysFrom(hand, i) ==
    IF i > Len(hand) THEN << >>
    ELSE (IF /\ hand[i].color # "BL"
             /\ \A j \in 1 .. (i - 1) : hand[j].color # hand[i].color
          THEN <<hand[i].color>> ELSE << >>)
         \o ColorKeysFrom(hand, i + 1)

\* keys.reduce((a, b) => colorCounts[a] > colorCounts[b] ? a : b), with the
\* accumulator a and the keys still to come
RECURSIVE ReduceColors(_, _, _)
ReduceColors(hand, a, keys) ==
    IF keys = << >> THEN a
    ELSE ReduceColors(hand,
                      IF ColorCount(hand, a) > ColorCount(hand, Head(keys))
                      THEN a ELSE Head(keys),
                      Tail(keys))

\* the color applyCardEffect gives a wild card of the computer
ComputerColor_part000(hand) ==
    LET keys == ColorKeysFrom(hand, 1)
    IN  IF Len(keys) > 0 THEN ReduceColors(hand, Head(keys), Tail(keys)) ELSE "R"

\* applyCardEffect(cardPlayed, currentPlayer, deck, hands): draws are applied
\* to the hands at once
applyCardEffect_part000(s, cardPlayed, player) ==
    LET numPlayers == 2
        first == (player + 1) % numPlayers
        mustDraw == CASE cardPlayed.value = "D2" -> 2
                      [] cardPlayed.value = "W4" -> 4
                      [] OTHER -> 0
        n == IF mustDraw <= Len(s.deck) THEN mustDraw ELSE Len(s.deck)
        drawn == Reverse(SubSeq(s.deck, Len(s.deck) - n + 1, Len(s.deck)))
        s1 == IF mustDraw > 0
              THEN [s EXCEPT !.hands[first] = @ \o drawn,
                             !.deck = SubSeq(@, 1, Len(@) - n)]
              ELSE s
        nextPlayer == IF cardPlayed.value \in {"S", "R"} THEN (player + 2) % numPlayers
                      ELSE IF mustDraw > 0 THEN (first + 1) % numPlayers
                      ELSE first
        newTopCardColor ==
            IF cardPlayed.color # "BL" THEN cardPlayed.color
            ELSE IF player = 0 THEN "R"
            ELSE ComputerColor_part000(s1.hands[player])
    IN  [s |-> s1, nextPlayer |-> nextPlayer,
         newTopCard |-> Card(newTopCardColor, cardPlayed.value)]

\* the priority list of computerPlay
Priority ==
    <<"W4", "W", "D2", "S", "R", "9", "8", "7", "6", "5", "4", "3", "2", "1", "0">>

\* computerPlay(computerHand, topCard); 0 stands for null
computerPlay(computerHand, top) ==
    LET hits(v) == {i \in 1 .. Len(computerHand) :
                       /\ computerHand[i].value = v
                       /\ \/ computerHand[i].color = "BL"
                          \/ isValidPlay(computerHand[i], top)}
        found == {n \in 1 .. Len(Priority) : hits(Priority[n]) # {}}
    IN  IF found # {}
        THEN FirstIndex(hits(Priority[FirstIndex(found)]))
        ELSE FirstIndex({i \in 1 .. Len(computerHand) : isValidPlay(computerHand[i], top)})

\* if (currentPlayer === 1 && !gameOver) setTimeout(handleComputerTurn, 1000)
StartTimer_part000(s) ==
    IF s.currentPlayer = 1 /\ ~s.gameOver
    THEN [s EXCEPT !.aiActionTimeout = @ + 1]
    ELSE s

\* handleComputerTurn, run by a timer
handleComputerTurn_part000(s) ==
    IF s.gameOver \/ s.currentPlayer # 1 THEN s
    ELSE
    LET cardIndexToPlay == computerPlay(s.hands[1], s.topCard)
    IN  IF cardIndexToPlay # 0
        THEN LET cardPlayed == s.hands[1][cardIndexToPlay]
                 s1 == [s EXCEPT !.hands[1] = RemoveAt(@, cardIndexToPlay),
                                 !.discardPile = Append(@, cardPlayed)]
                 effect == applyCardEffect_part000(s1, cardPlayed, 1)
                 s2 == [effect.s EXCEPT !.topCard = effect.newTopCard,
                                        !.currentPlayer = effect.nextPlayer]
             IN  IF Len(s2.hands[1]) = 0
                 THEN [s2 EXCEPT !.gameOver = TRUE]
                 ELSE StartTimer_part000(s2)
        ELSE LET s1 == IF Len(s.deck) > 0
                       THEN [s EXCEPT !.hands[1] = Append(@, Last(s.deck)),
                                      !.deck = Front(s.deck)]
                       ELSE s
             IN  StartTimer_part000([s1 EXCEPT !.currentPlayer = 0])

\* handlePlayerAction from `if (cardPlayed)` (line 150) on: cardPlayed has left
\* the hand; newTopColor is the resolved color, "none" for null
ResumePlayerAction(s, cardPlayed, newTopColor) ==
    LET effect == applyCardEffect_part000(s, cardPlayed, 0)
        newTopCard == IF newTopColor # "none"
                      THEN [effect.newTopCard EXCEPT !.color = newTopColor]
                      ELSE effect.newTopCard
        s1 == [effect.s EXCEPT !.topCard = newTopCard,
                               !.currentPlayer = effect.nextPlayer]
    IN  IF Len(s1.hands[0]) = 0
        THEN [s1 EXCEPT !.gameOver = TRUE]
        ELSE StartTimer_part000(s1)

\* handleWildChoice: the picker is shown and the caller is suspended
handleWildChoice(s, cardPlayed) ==
    [s EXCEPT !.pickerDisplay = "block", !.pickerWildValue = cardPlayed.value]

\* handlePlayerAction(cardIndex) up to its return or its await; cardIndex 0 is
\* the draw request (null)
handlePlayerAction_part000(s, cardIndex) ==
    IF s.gameOver \/ s.currentPlayer # 0 THEN s
    ELSE IF cardIndex = 0
    THEN LET s1 == IF Len(s.deck) > 0
                   THEN [s EXCEPT !.hands[0] = Append(@, Last(s.deck)),
                                  !.deck = Front(s.deck)]
                   ELSE s
         IN  [s1 EXCEPT !.currentPlayer = 1, !.aiActionTimeout = @ + 1]
    ELSE
    LET cardToPlay == s.hands[0][cardIndex]
    IN  IF ~isValidPlay(cardToPlay, s.topCard) THEN s
        ELSE
        LET s1 == [s EXCEPT !.hands[0] = RemoveAt(@, cardIndex),
                            !.discardPile = Append(@, cardToPlay)]
        IN  IF cardToPlay.color = "BL"
            THEN handleWildChoice(s1, cardToPlay)
            ELSE ResumePlayerAction(s1, cardToPlay, "none")

\* setWildColor(colorChoice) while a promise is unresolved: the picker is
\* hidden and the suspended handlePlayerAction goes on with the choice
setWildColor_part000(s, colorChoice) ==
    IF s.pickerWildValue = "null" THEN s
    ELSE ResumePlayerAction([s EXCEPT !.pickerDisplay = "none",
                                      !.pickerWildValue = "null"],
                            Card("BL", s.pickerWildValue), colorChoice)

\* dealStartingHands(deck): seven cards each, alternately
dealStartingHands(cards) ==
    [hands |-> [p \in Seats2p |->
                  [c \in 1 .. HandSize |-> cards[Len(cards) - (2 * (c - 1) + p)]]],
     deck  |-> SubSeq(cards, 1, Len(cards) - 2 * HandSize)]

\* getInitialTopCard(deck): a wild card goes to the other end of the deck and
\* the deck is sorted with a random comparison, of whose outcomes the one that
\* keeps the order (k = 0) and one rotation are followed
RECURSIVE getInitialTopCard(_, _)
getInitialTopCard(cards, k) ==
    LET card == Last(cards)
    IN  IF card.color = "BL"
        THEN getInitialTopCard(Shuffle(<<card>> \o Front(cards), Len(cards) - k), k)
        ELSE [deck |-> Front(cards), card |-> card]

initGame_part000(s, shuffledDeck, k) ==
    LET dealt == dealStartingHands(shuffledDeck)
        flip == getInitialTopCard(dealt.deck, k)
    IN  [s EXCEPT !.deck = flip.deck,
                  !.hands = dealt.hands,
                  !.discardPile = <<flip.card>>,
                  !.topCard = flip.card,
                  !.currentPlayer = 0,
                  !.gameOver = FALSE]

startGame_part000(s, shuffledDeck, k) == initGame_part000(s, shuffledDeck, k)

\* player 0 holds both kinds of wild and cards that match the red 0
ShuffleUiWild ==
    Stacked2p([p \in Seats2p |->
                 IF p = 0
                 THEN <<Card("BL", "W"), Card("BL", "W4"), Card("R", "1"), Card("R", "S"),
                        Card("G", "3"), Card("B", "4"), Card("Y", "5")>>
                 ELSE <<Card("R", "5"), Card("R", "6"), Card("G", "7"), Card("G", "8"),
                        Card("B", "9"), Card("Y", "D2"), Card("BL", "W")>>],
              <<Card("R", "0")>>)

\* the first card flipped is a wild; the computer holds nothing that matches
ShuffleUiFlip ==
    Stacked2p([p \in Seats2p |->
                 IF p = 0
                 THEN <<Card("Y", "1"), Card("Y", "2"), Card("BL", "W"), Card("G", "3"),
                        Card("G", "4"), Card("B", "4"), Card("Y", "5")>>
                 ELSE <<Card("R", "5"), Card("R", "6"), Card("G", "7"), Card("G", "8"),
                        Card("B", "9"), Card("R", "D2"), Card("R", "S")>>],
              <<Card("BL", "W4"), Card("Y", "0")>>)

Shuffles_part000 == {ShuffleUiWild, ShuffleUiFlip}

\* the page after loading: gameState = {} (no current player, nothing over)
Init_part000 ==
    /\ deck = << >>
    /\ discardPile = << >>
    /\ hands = [p \in Seats2p |-> << >>]
    /\ topCard = NoCard
    /\ currentPlayer = 0 - 1
    /\ direction = 1
    /\ pendingDraw = 0
    /\ unoAwaitingCall = FALSE
    /\ gameOver = FALSE
    /\ winner = 0 - 1
    /\ aiActionTimeout = 0
    /\ pickerDisplay = "none"
    /\ pickerWildValue = "null"
    /\ outstandingTimers = 0
    /\ steps = 0

\* the start button: enabled when the page loads and again by renderGame when
\* the game is over (a restart while a color choice is suspended is not
\* followed)
StartGame_part000 ==
    /\ steps < MaxStepsUi
    /\ topCard = NoCard \/ gameOver
    /\ pickerWildValue = "null"
    /\ \E d \in Shuffles_part000, k \in 0 .. MaxRot :
          Becomes(startGame_part000(State, d, k))

\* the draw button: disabled by handleWildChoice (its release by a later
\* renderGame while the choice is still suspended is not followed)
PlayerDraws_part000 ==
    /\ steps < MaxStepsUi
    /\ pickerWildValue = "null"
    /\ Becomes(handlePlayerAction_part000(State, 0))

\* a click on a card of player 0's hand: the onclick of renderGame
PlayerClicksCard_part000 ==
    /\ steps < MaxStepsUi
    /\ \E i \in 1 .. Len(hands[0]) : Becomes(handlePlayerAction_part000(State, i))

\* a click on a button of the color picker
PlayerPicksColor_part000 ==
    /\ steps < MaxStepsUi
    /\ pickerDisplay # "none"
    /\ \E c \in {colors[i] : i \in 1 .. Len(colors)} :
          Becomes(setWildColor_part000(State, c))

\* a timer fires and runs handleComputerTurn
ComputerTimerFires_part000 ==
    /\ steps < MaxStepsUi
    /\ aiActionTimeout > 0
    /\ Becomes(handleComputerTurn_part000([State EXCEPT !.aiActionTimeout = @ - 1]))

Next_part000 ==
    \/ StartGame_part000
    \/ PlayerDraws_part000
    \/ PlayerClicksCard_part000
    \/ PlayerPicksColor_part000
    \/ ComputerTimerFires_part000

Spec_part000 == Init_part000 /\ [][Next_part000]_vars

\* ------------------------------------------------------------------------
\* Properties of the promise-based flow (specification Spec_part000)
\* ------------------------------------------------------------------------

\* a handlePlayerAction is suspended at its await: the promise of
\* handleWildChoice is unresolved
ChoicePending_part000 == pickerWildValue # "null"

\* C31: while player 0's wild color choice is pending, no second
\* handlePlayerAction (card play or draw) and no computer turn is applied:
\* the only step that changes the state is the one that resolves the choice.
C31_NoInterleavingWhileChoosing ==
    [][ChoicePending_part000 => ~ChoicePending_part000']_vars

\* ========================================================================
\* calculateNextPlayer of src/unnamed/part_001 as a function of its arguments:
\* currentPlayer holds playerIndex, pendingDraw holds skips and winner holds
\* the value returned (-1 before the call)
\* ========================================================================

MaxSkips == 12

Init_calculateNextPlayer ==
    /\ deck = << >>
    /\ discardPile = << >>
    /\ hands = [p \in Players |-> << >>]
    /\ topCard = NoCard
    /\ currentPlayer \in Players
    /\ direction \in {1, 0 - 1}
    /\ pendingDraw \in 0 .. MaxSkips
    /\ unoAwaitingCall = FALSE
    /\ gameOver = FALSE
    /\ winner = 0 - 1
    /\ aiActionTimeout = "null"
    /\ pickerDisplay = "none"
    /\ pickerWildValue = "null"
    /\ outstandingTimers = 0
    /\ steps = 0

CallCalculateNextPlayer ==
    /\ steps = 0
    /\ winner' = calculateNextPlayer(currentPlayer, direction, pendingDraw)
    /\ steps' = 1
    /\ UNCHANGED <<deck, discardPile, hands, topCard, currentPlayer, direction,
                   pendingDraw, unoAwaitingCall, gameOver, aiActionTimeout,
                   pickerDisplay, pickerWildValue, outstandingTimers>>

Next_calculateNextPlayer == CallCalculateNextPlayer

Spec_calculateNextPlayer == Init_calculateNextPlayer /\ [][Next_calculateNextPlayer]_vars

\* the remainder of x modulo 4 that lies in 0..3
Normalized(x) ==
    CHOOSE r \in 0 .. (NUM_PLAYERS - 1) :
        \E q \in (0 - (MaxSkips + 2)) .. (MaxSkips + 2) : x = NUM_PLAYERS * q + r

\* C33: calculateNextPlayer(playerIndex, direction, skips) is
\* (playerIndex + direction * (skips + 1)) mod 4 brought into 0..3, for every
\* seat, both directions and every skips >= 0; (3, +1, 0) gives 0 and
\* (0, -1, 0) gives 3.
C33_CalculateNextPlayer ==
    /\ steps = 1 => winner = Normalized(currentPlayer + direction * (pendingDraw + 1))
    /\ calculateNextPlayer(3, 1, 0) = 0
    /\ calculateNextPlayer(0, 0 - 1, 0) = 3

\* seat 0, backwards, skipping one seat: the result is seat 2
C33_Witness ==
    /\ steps = 1
    /\ currentPlayer = 0 /\ direction = 0 - 1 /\ pendingDraw = 1
    /\ winner = 2

====
